---- MODULE Spec2Model ----
(***************************************************************************)
(* Model of the ADIS IMU driver core (drivers/imu/adis.c): the paged       *)
(* register transport, the bit-field codec, the burst acquisition and the  *)
(* diagnostic snapshot.                                                    *)
(*                                                                         *)
(* A uint32_t is modelled as the set of its set bit positions (a subset of *)
(* 0..31): the model checker's integers are 32-bit signed, so the set is   *)
(* the representation that keeps all 32 bits.  Bytes and 16-bit words are  *)
(* plain naturals.                                                         *)
(***************************************************************************)
EXTENDS Integers, Sequences, FiniteSets, TLC

VARIABLES
    has_paging,     \* info->has_paging of the chip descriptor
    current_page,   \* adis->current_page, -1 is the "unknown" sentinel
    diag_flags,     \* adis->diag_flags, the diagnostic snapshot
    dev,            \* the device: selected page and register bytes
    burst_data,     \* the caller's buffer handed to adis_read_burst_data
    last,           \* the last call on the handle: arguments, transfers, result
    calc,           \* input and result of the last codec evaluation
    info,           \* the chip descriptor's sync-mode data and info->ip
    gpio_reset,     \* adis->gpio_reset is set: the handle has a reset line
    clk_freq,       \* adis->clk_freq
    ext_clk,        \* adis->ext_clk
    pc,             \* the position of adis_init
    trace,          \* the steps adis_init has performed, with their results
    heap,           \* what adis_init has acquired, released and handed out
    peer,           \* a second handle, with the device on its own bus
    thr             \* two callers inside register accesses on the handle

\* the variables of the bring-up and of the clock bookkeeping
life == <<info, gpio_reset, clk_freq, ext_clk, pc, trace, heap, peer, thr>>

vars == <<has_paging, current_page, diag_flags, dev, burst_data, last, calc,
          life>>

(***************************************************************************)
(* Bounds of the model.                                                    *)
(***************************************************************************)
\* register accesses each of the two callers makes on the shared handle
MaxCalls == 2

\* bytes of the caller's burst buffer beyond the largest payload
BufSlack == 1

(***************************************************************************)
(* Program constants.                                                      *)
(***************************************************************************)
ADIS_PAGE_SIZE == 128
ADIS_REG_PAGE_ID == 0
ADIS_4_BYTES_SIZE == 4
ADIS_2_BYTES_SIZE == 2
ADIS_1_BYTE_SIZE == 1
ADIS_16_BIT_BURST_SIZE == 0
ADIS_32_BIT_BURST_SIZE == 1
ADIS_MSG_SIZE_16_BIT_BURST == 20
ADIS_MSG_SIZE_32_BIT_BURST == 32
ADIS_CHECKSUM_SIZE == 2
ADIS_READ_BURST_DATA_CMD_SIZE == 2
ADIS_READ_BURST_DATA_CMD_MSB == 104
ADIS_READ_BURST_DATA_CMD_LSB == 0

(***************************************************************************)
(* uint32_t arithmetic on bit sets.                                        *)
(***************************************************************************)
U32Bits == 0..31

Pow2(n) == 2 ^ n

\* the bit set of a natural below 2^31
RECURSIVE BitsFrom(_, _)
BitsFrom(n, b) ==
    IF n = 0 THEN {}
    ELSE (IF n % 2 = 1 THEN {b} ELSE {}) \cup BitsFrom(n \div 2, b + 1)

Bits(n) == BitsFrom(n, 0)

\* the natural of a bit set without bit 31
RECURSIVE Nat31(_)
Nat31(S) ==
    IF S = {} THEN 0
    ELSE LET b == CHOOSE x \in S : TRUE IN Pow2(b) + Nat31(S \ {b})

\* (int32_t) of a bit set
Int32(S) ==
    IF 31 \in S THEN (Nat31(S \ {31}) - Pow2(30)) - Pow2(30) ELSE Nat31(S)

Shl(S, k) == {b + k : b \in {x \in S : x + k <= 31}}
Shr(S, k) == {b - k : b \in {x \in S : x >= k}}
\* (int32_t)S >> k, the arithmetic shift
Sar(S, k) == Shr(S, k) \cup (IF 31 \in S THEN (32 - k)..31 ELSE {})
U32Not(S) == U32Bits \ S
\* a > b on uint32_t: the highest bit in which they differ is a's
U32Gt(a, b) ==
    LET d == (a \ b) \cup (b \ a)
    IN  d # {} /\ (CHOOSE x \in d : \A y \in d : y <= x) \in a

\* byte k (0 = least significant) of a uint32_t
ByteOf(S, k) == Nat31(Shr(S, 8 * k) \cap (0..7))

(***************************************************************************)
(* no_os_util helpers used by the driver.                                  *)
(***************************************************************************)
no_os_find_first_set_bit(w) ==
    IF w = {} THEN 32 ELSE CHOOSE x \in w : \A y \in w : x <= y

no_os_find_last_set_bit(w) ==
    IF w = {} THEN 32 ELSE CHOOSE x \in w : \A y \in w : y <= x

\* ((word) & (mask)) >> first set bit of mask
no_os_field_get(mask, word) ==
    Shr(word \cap mask, no_os_find_first_set_bit(mask))

\* ((val) << first set bit of mask) & (mask)
no_os_field_prep(mask, val) ==
    Shl(val, no_os_find_first_set_bit(mask)) \cap mask

\* shift = 31 - index; (int32_t)(value << shift) >> shift
no_os_sign_extend32(value, index) ==
    LET shift == (31 - index) % 256
    IN  IF shift > 31 THEN {} ELSE Sar(Shl(value, shift), shift)

no_os_get_unaligned_be16(b0, b1) == b0 * 256 + b1

(***************************************************************************)
(* Bus error codes the transport may report, and the driver's own.         *)
(***************************************************************************)
BusErrors == {"EIO", "ETIMEDOUT"}

(***************************************************************************)
(* Register framing.                                                       *)
(***************************************************************************)
\* ADIS_WRITE_REG(reg) stored into a uint8_t
ADIS_WRITE_REG(reg) == 128 + (reg % 128)
\* ADIS_READ_REG(reg)
ADIS_READ_REG(reg) == reg % 128

PageOf(reg) == reg \div ADIS_PAGE_SIZE

\* one no_os_spi_msg: the two transmitted bytes (<<>> when tx_buff is unset)
\* and the half of adis->rx that receives (0: none, 1: rx, 2: rx + 2)
Msg(tx, rx) == [tx |-> tx, rx |-> rx]

(***************************************************************************)
(* The device behind the bus.  A 16-bit frame whose first byte has bit 7   *)
(* set writes one register byte (register 0 selects the page); with bit 7  *)
(* clear it requests the 16-bit word at that address, which the device     *)
(* shifts out during the following frame.  The device stores what is       *)
(* written.                                                                *)
(***************************************************************************)
\* the 16-bit word the device holds at in-page address a of its page
DevWord(d, a) ==
    LET lo == d.page * ADIS_PAGE_SIZE + a
        B(x) == IF x \in DOMAIN d.mem THEN d.mem[x] ELSE 0
    IN  B(lo + 1) * 256 + B(lo)

\* the device after one frame m; pend is the word it shifts out next
DevFrame(d, m) ==
    IF m.tx = <<>> THEN d
    ELSE IF m.tx[1] >= 128
    THEN LET a == m.tx[1] - 128
             addr == d.page * ADIS_PAGE_SIZE + a
         IN  IF a = ADIS_REG_PAGE_ID THEN [d EXCEPT !.page = m.tx[2]]
             ELSE IF addr \in DOMAIN d.mem
                  THEN [d EXCEPT !.mem[addr] = m.tx[2]]
                  ELSE d
    ELSE d

DevPend(d, m, pend) ==
    IF m.tx = <<>> \/ m.tx[1] >= 128 THEN 0 ELSE DevWord(d, m.tx[1])

\* no_os_spi_transfer of the first k messages of msgs: the device after
\* them and the two halves of adis->rx
RECURSIVE SpiRun(_, _, _, _, _, _)
SpiRun(d, msgs, i, k, pend, rx) ==
    IF i > k THEN [dev |-> d, rx |-> rx]
    ELSE LET m == msgs[i]
             rx2 == IF m.rx = 0 THEN rx ELSE [rx EXCEPT ![m.rx] = pend]
         IN  SpiRun(DevFrame(d, m), msgs, i + 1, k, DevPend(d, m, pend), rx2)

no_os_spi_transfer(d, msgs, k) == SpiRun(d, msgs, 1, k, 0, <<0, 0>>)

\* the outcomes of one transfer of n messages: success, an I/O error after
\* the device has taken any prefix of the messages, or any error before the
\* first message
Outcomes(n) ==
    {[err |-> "OK", k |-> n]} \cup [err : {"EIO"}, k : 0..n]
    \cup [err : BusErrors, k : {0}]

\* a call that hands nothing to the bus meets no bus outcome
NoTransfer == {[err |-> "OK", k |-> 0]}

(***************************************************************************)
(* adis_read_reg and adis_write_reg.                                       *)
(***************************************************************************)
NeedPageSelect_Always(cur, page) == TRUE

\* the page-select is prepended when the cached page is not the target
NeedPageSelect(cur, page) == cur # page

PageSelect(cur, page) ==
    IF NeedPageSelect(cur, page)
    THEN << Msg(<<ADIS_WRITE_REG(ADIS_REG_PAGE_ID), page % 256>>, 0) >>
    ELSE << >>

PageAfter_Unconditional(cur, page, err) == page

PageAfter_Keep(cur, page, err) == cur

\* the cached page after a transfer that returned err
PageAfter(cur, page, err) == IF err = "OK" THEN page ELSE cur

ReadSizeOk_Any(size) == TRUE

ReadSizeOk(size) == size \in {ADIS_4_BYTES_SIZE, ADIS_2_BYTES_SIZE}

\* msgs_to_send of adis_read_reg
ReadMsgs(cur, reg, size) ==
    PageSelect(cur, PageOf(reg))
    \o (IF size = ADIS_4_BYTES_SIZE
        THEN << Msg(<<ADIS_READ_REG(reg + 2), 0>>, 0) >> ELSE << >>)
    \o << Msg(<<ADIS_READ_REG(reg), 0>>, 1), Msg(<< >>, 2) >>

ReadVal_LowFirst(rx, size) ==
    IF size = ADIS_4_BYTES_SIZE
    THEN Shl(Bits(rx[2]), 16) \cup Bits(rx[1])
    ELSE Bits(rx[2])

\* *val of adis_read_reg from the two halves of adis->rx
ReadVal(rx, size) ==
    IF size = ADIS_4_BYTES_SIZE
    THEN Shl(Bits(rx[1]), 16) \cup Bits(rx[2])
    ELSE Bits(rx[2])

\* adis_read_reg: the result, the value, the cached page, the device and
\* the messages handed to the bus, for the bus outcome o
adis_read_reg(cur, d, reg, size, o) ==
    IF ~ReadSizeOk(size)
    THEN [ret |-> "EINVAL", val |-> {}, page |-> cur, dev |-> d, msgs |-> << >>]
    ELSE LET msgs == ReadMsgs(cur, reg, size)
             k == IF o.err = "OK" THEN Len(msgs)
                  ELSE IF o.k <= Len(msgs) THEN o.k ELSE Len(msgs)
             r == no_os_spi_transfer(d, msgs, k)
         IN  [ret |-> o.err,
              val |-> IF o.err = "OK" THEN ReadVal(r.rx, size) ELSE {},
              page |-> PageAfter(cur, PageOf(reg), o.err),
              dev |-> r.dev,
              msgs |-> msgs]

WriteSizeOk(size) ==
    size \in {ADIS_4_BYTES_SIZE, ADIS_2_BYTES_SIZE, ADIS_1_BYTE_SIZE}

WriteMsgs_Descending(cur, reg, val, size) ==
    PageSelect(cur, PageOf(reg))
    \o [i \in 1..size |->
            Msg(<<ADIS_WRITE_REG(reg + size - i), ByteOf(val, size - i)>>, 0)]

\* msgs_to_send of adis_write_reg
WriteMsgs(cur, reg, val, size) ==
    PageSelect(cur, PageOf(reg))
    \o [i \in 1..size |-> Msg(<<ADIS_WRITE_REG(reg + i - 1), ByteOf(val, i - 1)>>, 0)]

\* the bus outcomes a call of adis_read_reg / adis_write_reg can meet
\* (the frames of a read after its page-select leave the device as it is)
ReadOutcomes(cur, reg, size) ==
    IF ReadSizeOk(size) THEN Outcomes(Len(PageSelect(cur, PageOf(reg))))
    ELSE NoTransfer

WriteOutcomes(cur, reg, size) ==
    IF WriteSizeOk(size) THEN Outcomes(Len(WriteMsgs(cur, reg, {}, size)))
    ELSE NoTransfer

adis_write_reg(cur, d, reg, val, size, o) ==
    IF ~WriteSizeOk(size)
    THEN [ret |-> "EINVAL", page |-> cur, dev |-> d, msgs |-> << >>]
    ELSE LET msgs == WriteMsgs(cur, reg, val, size)
             k == IF o.err = "OK" THEN Len(msgs)
                  ELSE IF o.k <= Len(msgs) THEN o.k ELSE Len(msgs)
             r == no_os_spi_transfer(d, msgs, k)
         IN  [ret |-> o.err,
              page |-> PageAfter(cur, PageOf(reg), o.err),
              dev |-> r.dev,
              msgs |-> msgs]

(***************************************************************************)
(* Field access.                                                           *)
(***************************************************************************)
\* the decode of adis_read_field_u32
FieldU32(mask, reg_val) == no_os_field_get(mask, reg_val)

FieldS32_NoExtend(mask, reg_val) == no_os_field_get(mask, reg_val)

\* the decode of adis_read_field_s32: the int32_t as its 32 bits
FieldS32(mask, reg_val) ==
    no_os_sign_extend32(no_os_field_get(mask, reg_val),
                        no_os_find_last_set_bit(mask))

adis_read_field_u32(cur, d, f, o) ==
    LET r == adis_read_reg(cur, d, f.reg_addr, f.reg_size, o)
    IN  IF r.ret # "OK" THEN r
        ELSE [r EXCEPT !.val = FieldU32(f.field_mask, r.val)]

adis_read_field_s32(cur, d, f, o) ==
    LET r == adis_read_reg(cur, d, f.reg_addr, f.reg_size, o)
    IN  IF r.ret # "OK" THEN r
        ELSE [r EXCEPT !.val = FieldS32(f.field_mask, r.val)]

UpdateBits_Overwrite(old, mask, val) == no_os_field_prep(mask, val)

UpdateBits_NoClear(old, mask, val) == old \cup no_os_field_prep(mask, val)

\* __val = (__val & ~mask) | no_os_field_prep(mask, val)
UpdateBits(old, mask, val) ==
    (old \cap U32Not(mask)) \cup no_os_field_prep(mask, val)

adis_update_bits_base_WriteAnyway(cur, d, reg, mask, val, size, o1, o2) ==
    LET After(r, w) == [w EXCEPT !.msgs = r.msgs \o w.msgs]
        Write(r) ==
            After(r, adis_write_reg(r.page, r.dev, reg,
                                    UpdateBits(r.val, mask, val), size, o2))
    IN  Write(adis_read_reg(cur, d, reg, size, o1))

\* adis_update_bits_base: o1 is the outcome of the read's transfer, o2 of
\* the write's
adis_update_bits_base(cur, d, reg, mask, val, size, o1, o2) ==
    LET r == adis_read_reg(cur, d, reg, size, o1)
    IN  IF r.ret # "OK"
        THEN [ret |-> r.ret, page |-> r.page, dev |-> r.dev, msgs |-> r.msgs]
        ELSE LET w == adis_write_reg(r.page, r.dev, reg,
                                     UpdateBits(r.val, mask, val), size, o2)
             IN  [w EXCEPT !.msgs = r.msgs \o w.msgs]

FieldValTooBig_RawMask(mask, field_val) == U32Gt(field_val, mask)

\* the value does not fit the field
FieldValTooBig(mask, field_val) ==
    U32Gt(field_val, no_os_field_get(mask, mask))

adis_write_field_u32(cur, d, f, field_val, o1, o2) ==
    IF FieldValTooBig(f.field_mask, field_val)
    THEN [ret |-> "EINVAL", page |-> cur, dev |-> d, msgs |-> << >>]
    ELSE adis_update_bits_base(cur, d, f.reg_addr, f.field_mask, field_val,
                               f.reg_size, o1, o2)

(***************************************************************************)
(* The chip descriptor's field map used by the model: on page 0 a 2-byte   *)
(* register with a 12-bit field at bit 0, whose low byte is also described *)
(* as a 1-byte register with a 4-bit field, and on page 1 a 4-byte         *)
(* register with a 16-bit field at bit 8.                                  *)
(***************************************************************************)
Field(reg, size, mask) ==
    [reg_addr |-> reg, reg_size |-> size, field_mask |-> mask]

PageFields(p) ==
    IF p = 0
    THEN {Field(4, ADIS_2_BYTES_SIZE, 0..11), Field(4, ADIS_1_BYTE_SIZE, 0..3)}
    ELSE {Field(p * ADIS_PAGE_SIZE + 8, ADIS_4_BYTES_SIZE, 8..23)}

Fields == PageFields(0) \cup PageFields(1)

\* a chip without paging has all its registers on page 0
FieldsOf(paging) == IF paging THEN Fields ELSE PageFields(0)

RegBytes == UNION {f.reg_addr..(f.reg_addr + f.reg_size - 1) : f \in Fields}

FieldWidth(f) == Cardinality(f.field_mask)

\* values written to a field: 0, the top bit alone, all ones, and the
\* smallest value that does not fit
FieldVals(f) ==
    {{}, {FieldWidth(f) - 1}, 0..(FieldWidth(f) - 1), {FieldWidth(f)}}

\* values and sizes of raw register accesses: 0 and 0x84030201, whose four
\* bytes differ
RawVals == {{}, {0, 9, 16, 17, 26, 31}}
RawSizes(f) == {f.reg_size, ADIS_1_BYTE_SIZE, 3}
RawRegs == {f \in Fields : f.reg_size # ADIS_1_BYTE_SIZE}
RawRegsOf(paging) == RawRegs \cap FieldsOf(paging)

(***************************************************************************)
(* The chip descriptor's synchronisation data, commands and identity.      *)
(***************************************************************************)
ADIS_SYNC_DEFAULT == 0
ADIS_SYNC_DIRECT == 1
ADIS_SYNC_SCALED == 2
ADIS_SYNC_OUTPUT == 3

\* info->int_clk and info->prod_id
IntClk == 2000
ChipProdId == 16505

\* the sync-mode and up-scale fields, the product-ID field and the command
\* bits of the command register
SyncModeField == Field(96, ADIS_2_BYTES_SIZE, {2, 3})
UpScaleField == Field(98, ADIS_2_BYTES_SIZE, 0..15)
ProdIdField == Field(114, ADIS_2_BYTES_SIZE, 0..15)
SnsrSelfTestField == Field(104, ADIS_2_BYTES_SIZE, {2})
FlsMemTestField == Field(104, ADIS_2_BYTES_SIZE, {4})
SwResField == Field(104, ADIS_2_BYTES_SIZE, {7})

FreqLimit(lo, hi) == [min_freq |-> lo, max_freq |-> hi]

\* info->sync_clk_freq_limits: direct sync takes the sample clock itself,
\* scaled sync a slow clock up to scaled_max
SyncClkFreqLimits(scaled_max) ==
    [m \in ADIS_SYNC_DEFAULT..ADIS_SYNC_OUTPUT |->
        IF m = ADIS_SYNC_DIRECT THEN FreqLimit(1900, 2100)
        ELSE IF m = ADIS_SYNC_SCALED THEN FreqLimit(1, scaled_max)
        ELSE FreqLimit(0, 0)]

\* info->ip: the reset line, the sync mode and the external clock that
\* adis_init programs
InitParam(reset, sync_mode, clk) ==
    [gpio_reset |-> reset, sync_mode |-> sync_mode, ext_clk |-> clk]

ChipInfo(mode_max, scaled_max, ip) ==
    [sync_mode_max |-> mode_max, int_clk |-> IntClk,
     sync_clk_freq_limits |-> SyncClkFreqLimits(scaled_max),
     ip |-> ip]

\* the largest scaled-sync clock of the chip variants
ScaledMaxFreqs == {128, 400}

(***************************************************************************)
(* State of the handle and of the device.                                  *)
(***************************************************************************)
\* a handle that adis_init has handed out, on the internal clock
\* nothing acquired, and a handle adis_init has handed out
NoHeap ==
    [dev |-> "none", spi_desc |-> "none", gpio_reset |-> "none",
     adis |-> FALSE]

HandedOut(line) ==
    [dev |-> "held", spi_desc |-> "held",
     gpio_reset |-> IF line THEN "held" ELSE "none", adis |-> TRUE]

\* no second handle, and nobody inside a register access
NoPeer == [attached |-> FALSE]
NoCallers == [on |-> FALSE]

Attached ==
    /\ info = ChipInfo(ADIS_SYNC_OUTPUT, 128,
                       InitParam(FALSE, ADIS_SYNC_DEFAULT, 0))
    /\ gpio_reset = FALSE
    /\ clk_freq = IntClk
    /\ ext_clk = 0
    /\ pc = "ready"
    /\ trace = << >>
    /\ heap = HandedOut(FALSE)
    /\ peer = NoPeer
    /\ thr = NoCallers

NoFlags ==
    [data_path_overrun |-> FALSE, spi_comm_err |-> FALSE,
     diag_standby_mode |-> FALSE, clk_err |-> FALSE,
     fls_mem_update_failure |-> FALSE, mem_failure |-> FALSE,
     snsr_failure |-> FALSE, gyro1_failure |-> FALSE,
     gyro2_failure |-> FALSE, accl_failure |-> FALSE,
     checksum_err |-> FALSE, fls_mem_wr_cnt_exceed |-> FALSE]

\* the record of a call: operation, register, size, mask, value passed,
\* result, value returned, messages handed to the bus, the cached page
\* before the call, what the transport reported, and the burst frame the
\* device sent after the bytes (head) it sent during the command, the
\* snapshot copied to the caller, the flag a per-flag accessor projects, and
\* the settle delay the call waited before it returned
Call(op, reg, size, mask, val, ret, out, msgs, pre, bus) ==
    [op |-> op, reg |-> reg, size |-> size, mask |-> mask, val |-> val,
     ret |-> ret, out |-> out, msgs |-> msgs, pre_page |-> pre, bus |-> bus,
     frame |-> << >>, head |-> << >>, snap |-> NoFlags, flag |-> "",
     delay |-> ""]

NoCall == Call("none", 0, 0, {}, {}, "OK", {}, << >>, -1, << >>)

\* what the transport reported for the transfers of a call: nothing when no
\* message was handed over, else the outcome of each transfer in order
BusLog1(msgs, o) == IF msgs = << >> THEN << >> ELSE << o.err >>
BusLog2(msgs, o1, o2) ==
    IF msgs = << >> THEN << >>
    ELSE IF o1.err # "OK" THEN << o1.err >> ELSE << o1.err, o2.err >>

NoCalc == [op |-> "none", mask |-> {}, raw |-> {}, out |-> {},
           frame |-> << >>, ok |-> FALSE]

\* adis_init up to the first register access: the cached page is the
\* sentinel on a paged chip and 0 otherwise
InitPage(paging) == IF paging THEN -1 ELSE 0

Init ==
    /\ has_paging \in BOOLEAN
    /\ current_page = InitPage(has_paging)
    /\ diag_flags = NoFlags
    /\ dev \in [page : (IF has_paging THEN {0, 1} ELSE {0}),
                mem : {[a \in RegBytes |-> 0]}]
    /\ burst_data = << >>
    /\ last = NoCall
    /\ calc = NoCalc
    /\ Attached

ReadReg ==
    \E f \in RawRegsOf(has_paging) : \E size \in RawSizes(f) :
    \E o \in ReadOutcomes(current_page, f.reg_addr, size) :
        \E r \in {adis_read_reg(current_page, dev, f.reg_addr, size, o)} :
            /\ current_page' = r.page
            /\ dev' = r.dev
            /\ last' = Call("read_reg", f.reg_addr, size, {}, {}, r.ret, r.val,
                            r.msgs, current_page, BusLog1(r.msgs, o))
            /\ UNCHANGED <<life, has_paging, diag_flags, burst_data, calc>>

WriteReg ==
    \E f \in RawRegsOf(has_paging) : \E size \in RawSizes(f), val \in RawVals :
    \E o \in WriteOutcomes(current_page, f.reg_addr, size) :
        \E r \in {adis_write_reg(current_page, dev, f.reg_addr, val, size, o)} :
            /\ current_page' = r.page
            /\ dev' = r.dev
            /\ last' = Call("write_reg", f.reg_addr, size, {}, val, r.ret, {},
                            r.msgs, current_page, BusLog1(r.msgs, o))
            /\ UNCHANGED <<life, has_paging, diag_flags, burst_data, calc>>

ReadFieldU32 ==
    \E f \in FieldsOf(has_paging) :
    \E o \in ReadOutcomes(current_page, f.reg_addr, f.reg_size) :
        \E r \in {adis_read_field_u32(current_page, dev, f, o)} :
            /\ current_page' = r.page
            /\ dev' = r.dev
            /\ last' = Call("read_field_u32", f.reg_addr, f.reg_size,
                            f.field_mask, {}, r.ret, r.val, r.msgs, current_page, BusLog1(r.msgs, o))
            /\ UNCHANGED <<life, has_paging, diag_flags, burst_data, calc>>

ReadFieldS32 ==
    \E f \in FieldsOf(has_paging) :
    \E o \in ReadOutcomes(current_page, f.reg_addr, f.reg_size) :
        \E r \in {adis_read_field_s32(current_page, dev, f, o)} :
            /\ current_page' = r.page
            /\ dev' = r.dev
            /\ last' = Call("read_field_s32", f.reg_addr, f.reg_size,
                            f.field_mask, {}, r.ret, r.val, r.msgs, current_page, BusLog1(r.msgs, o))
            /\ UNCHANGED <<life, has_paging, diag_flags, burst_data, calc>>

WriteFieldU32 ==
    \E f \in FieldsOf(has_paging) : \E v \in FieldVals(f) :
    \E o1 \in (IF FieldValTooBig(f.field_mask, v) THEN NoTransfer
                ELSE ReadOutcomes(current_page, f.reg_addr, f.reg_size)) :
    \E o2 \in (IF o1.err = "OK" /\ ReadSizeOk(f.reg_size)
                   /\ ~FieldValTooBig(f.field_mask, v)
                THEN WriteOutcomes(PageOf(f.reg_addr), f.reg_addr, f.reg_size)
                ELSE NoTransfer) :
        \E r \in {adis_write_field_u32(current_page, dev, f, v, o1, o2)} :
            /\ current_page' = r.page
            /\ dev' = r.dev
            /\ last' = Call("write_field_u32", f.reg_addr, f.reg_size,
                            f.field_mask, v, r.ret, {}, r.msgs, current_page,
                            BusLog2(r.msgs, o1, o2))
            /\ UNCHANGED <<life, has_paging, diag_flags, burst_data, calc>>

(***************************************************************************)
(* Diagnostics.                                                            *)
(***************************************************************************)
\* the chip descriptor's diagnostic masks: one status bit per flag
DiagMasks ==
    [data_path_overrun |-> {1}, fls_mem_update_failure |-> {2},
     spi_comm_err |-> {3}, diag_standby_mode |-> {4},
     snsr_failure |-> {5}, mem_failure |-> {6}, clk_err |-> {7},
     gyro1_failure |-> {8}, gyro2_failure |-> {9}, accl_failure |-> {10}]

RegFlags == DOMAIN DiagMasks

\* the chip descriptor's status field, write-cycle counter field and limit
DiagStatField == Field(2, ADIS_2_BYTES_SIZE, 0..15)
FlsMemWrCntrField == Field(124, ADIS_4_BYTES_SIZE, 0..31)
FlsMemWrCntrMax == 10000

adis_update_diag_flags_Whole(flags, diag_stat) ==
    [f \in DOMAIN flags |->
        f \in RegFlags /\ (diag_stat \cap (0..15)) \cap DiagMasks[f] # {}]

adis_update_diag_flags_Sticky(flags, diag_stat) ==
    [f \in DOMAIN flags |->
        IF f \in RegFlags
        THEN flags[f] \/ (diag_stat \cap (0..15)) \cap DiagMasks[f] # {}
        ELSE flags[f]]

\* adis_update_diag_flags; diag_stat is the uint16_t argument
adis_update_diag_flags(flags, diag_stat) ==
    [f \in DOMAIN flags |->
        IF f \in RegFlags THEN (diag_stat \cap (0..15)) \cap DiagMasks[f] # {}
        ELSE flags[f]]

adis_read_diag_stat_NoStore(cur, d, flags, o) ==
    LET r == adis_read_reg(cur, d, DiagStatField.reg_addr,
                           DiagStatField.reg_size, o)
    IN  [r |-> r, flags |-> flags,
         snap |-> IF r.ret # "OK" THEN NoFlags
                  ELSE adis_update_diag_flags(flags, r.val)]

\* adis_read_diag_stat: the register read, the snapshot after it and the
\* caller's struct (zeroed before the call, written on success only)
adis_read_diag_stat(cur, d, flags, o) ==
    LET r == adis_read_reg(cur, d, DiagStatField.reg_addr,
                           DiagStatField.reg_size, o)
        upd == adis_update_diag_flags(flags, r.val)
    IN  [r |-> r,
         flags |-> IF r.ret # "OK" THEN flags ELSE upd,
         snap |-> IF r.ret # "OK" THEN NoFlags ELSE upd]

\* a uint32_t out-parameter that receives a flag
FlagWord(b) == IF b THEN {0} ELSE {}

\* the member of struct adis_diag_flags each adis_read_diag_<flag> copies out
DiagAccessor == [f \in RegFlags |-> f]

\* adis_read_diag_<flag> for the ten register flags: adis_read_diag_stat,
\* then the flag of the returned copy
adis_read_diag_flag(cur, d, flags, f, o) ==
    LET x == adis_read_diag_stat(cur, d, flags, o)
    IN  [r |-> x.r, flags |-> x.flags, snap |-> x.snap,
         out |-> IF x.r.ret # "OK" THEN {}
                 ELSE FlagWord(x.snap[DiagAccessor[f]])]

adis_read_diag_checksum_err_Swapped(flags) ==
    FlagWord(flags.fls_mem_wr_cnt_exceed)

\* adis_read_diag_checksum_err
adis_read_diag_checksum_err(flags) == FlagWord(flags.checksum_err)

\* adis_read_diag_fls_mem_wr_cnt_exceed
adis_read_diag_fls_mem_wr_cnt_exceed(flags) ==
    FlagWord(flags.fls_mem_wr_cnt_exceed)

adis_read_fls_mem_wr_cntr_Track(cur, d, flags, o) ==
    LET Tracked(r) ==
            [r |-> r,
             flags |-> IF r.ret = "OK"
                       THEN [flags EXCEPT !.fls_mem_wr_cnt_exceed =
                                U32Gt(r.val, Bits(FlsMemWrCntrMax))]
                       ELSE flags]
    IN  Tracked(adis_read_field_u32(cur, d, FlsMemWrCntrField, o))

\* adis_read_fls_mem_wr_cntr
adis_read_fls_mem_wr_cntr(cur, d, flags, o) ==
    LET r == adis_read_field_u32(cur, d, FlsMemWrCntrField, o)
    IN  [r |-> r,
         flags |-> IF r.ret = "OK" /\ U32Gt(r.val, Bits(FlsMemWrCntrMax))
                   THEN [flags EXCEPT !.fls_mem_wr_cnt_exceed = TRUE]
                   ELSE flags]

(***************************************************************************)
(* Burst read.                                                             *)
(***************************************************************************)
burst_size_bytes(sel) ==
    IF sel = ADIS_16_BIT_BURST_SIZE THEN ADIS_MSG_SIZE_16_BIT_BURST
    ELSE ADIS_MSG_SIZE_32_BIT_BURST

\* checksum -= buffer[i] on a uint16_t, for i from idx to the last byte
\* before the trailer (buffer is 1-based here)
RECURSIVE ChecksumLoop(_, _, _, _)
ChecksumLoop(buffer, size, i, checksum) ==
    IF i > size - ADIS_CHECKSUM_SIZE THEN checksum
    ELSE ChecksumLoop(buffer, size, i + 1,
                      (checksum + 65536 - buffer[i]) % 65536)

ChecksumStart_Narrow(buffer, size) == buffer[size]

\* uint16_t checksum = no_os_get_unaligned_be16(&buffer[size - 2])
ChecksumStart(buffer, size) ==
    no_os_get_unaligned_be16(buffer[size - 1], buffer[size])

adis_validate_checksum(buffer, size) ==
    ChecksumLoop(buffer, size, 1, ChecksumStart(buffer, size)) = 0

BurstCopyLen_WholeFrame(burst_data_size, msg_size) ==
    IF burst_data_size > msg_size THEN msg_size ELSE burst_data_size

\* the clamp of burst_data_size to the frame without its checksum
BurstCopyLen(burst_data_size, msg_size) ==
    IF burst_data_size > msg_size - ADIS_CHECKSUM_SIZE
    THEN msg_size - ADIS_CHECKSUM_SIZE
    ELSE burst_data_size

\* memcpy(burst_data, &buffer[ADIS_READ_BURST_DATA_CMD_SIZE], n)
Memcpy(buf, frame, n) ==
    [i \in 1..Len(buf) |-> IF i <= n THEN frame[i] ELSE buf[i]]

BurstFlagsOnMismatch_Decode(flags, frame) ==
    [adis_update_diag_flags(flags, Bits(frame[1])) EXCEPT !.checksum_err = TRUE]

\* the snapshot after a frame whose checksum does not validate
BurstFlagsOnMismatch(flags, frame) == [flags EXCEPT !.checksum_err = TRUE]

\* the snapshot after a validated frame: the flag is cleared and
\* buffer[ADIS_READ_BURST_DATA_CMD_SIZE], one byte, is decoded
BurstFlagsOnSuccess(flags, frame) ==
    adis_update_diag_flags([flags EXCEPT !.checksum_err = FALSE],
                           Bits(frame[1]))

BurstPayload_WithCmd(buffer) ==
    SubSeq(buffer, 1, Len(buffer) - ADIS_READ_BURST_DATA_CMD_SIZE)

\* &buffer[ADIS_READ_BURST_DATA_CMD_SIZE]: the frame behind the two bytes
\* received while the command went out
BurstPayload(buffer) ==
    SubSeq(buffer, ADIS_READ_BURST_DATA_CMD_SIZE + 1, Len(buffer))

adis_read_burst_data_ClearOnError(flags, burst_data_size, buf, sel, err, buffer) ==
    LET msg_size == burst_size_bytes(sel)
        msgs == << Msg(<<ADIS_READ_BURST_DATA_CMD_MSB,
                         ADIS_READ_BURST_DATA_CMD_LSB>>, 0) >>
    IN  [ret |-> IF err # "OK" THEN err ELSE "EINVAL",
         flags |-> [flags EXCEPT !.checksum_err = (err = "OK")],
         buf |-> buf, msgs |-> msgs,
         bytes |-> msg_size + ADIS_READ_BURST_DATA_CMD_SIZE]

\* adis_read_burst_data: buffer is what the one bus transaction received
\* (two bytes during the command, then the frame), err its outcome
adis_read_burst_data(flags, burst_data_size, buf, sel, err, buffer) ==
    LET msg_size == burst_size_bytes(sel)
        frame == BurstPayload(buffer)
        n == BurstCopyLen(burst_data_size, msg_size)
        msgs == << Msg(<<ADIS_READ_BURST_DATA_CMD_MSB,
                         ADIS_READ_BURST_DATA_CMD_LSB>>, 0) >>
    IN  IF err # "OK"
        THEN [ret |-> err, flags |-> flags, buf |-> buf, msgs |-> msgs,
              bytes |-> msg_size + ADIS_READ_BURST_DATA_CMD_SIZE]
        ELSE IF ~adis_validate_checksum(frame, msg_size)
        THEN [ret |-> "EINVAL", flags |-> BurstFlagsOnMismatch(flags, frame),
              buf |-> buf, msgs |-> msgs,
              bytes |-> msg_size + ADIS_READ_BURST_DATA_CMD_SIZE]
        ELSE [ret |-> "OK", flags |-> BurstFlagsOnSuccess(flags, frame),
              buf |-> Memcpy(buf, frame, n), msgs |-> msgs,
              bytes |-> msg_size + ADIS_READ_BURST_DATA_CMD_SIZE]

\* the exact sum of the bytes of a frame before its trailer
RECURSIVE SumBytes(_, _)
SumBytes(frame, n) == IF n = 0 THEN 0 ELSE frame[n] + SumBytes(frame, n - 1)

PayloadSum(frame) == SumBytes(frame, Len(frame) - 2)
Trailer(frame) == frame[Len(frame) - 1] * 256 + frame[Len(frame)]

\* x with bit b flipped, for a 16-bit x
FlipBit(x, b) ==
    IF (x \div Pow2(b)) % 2 = 1 THEN x - Pow2(b) ELSE x + Pow2(b)

\* a frame of size bytes: the two bytes of the diagnostic word, a payload
\* that counts up from fill, and the trailer t
MkFrame(size, d0, d1, fill, t) ==
    [i \in 1..size |->
        IF i = 1 THEN d0
        ELSE IF i = 2 THEN d1
        ELSE IF i <= size - 2 THEN (fill + i) % 256
        ELSE IF i = size - 1 THEN t \div 256
        ELSE t % 256]

\* the same frame with the trailer its payload sums to, flipped in the bits
\* of flips
SumFrame(size, d0, d1, fill, flips) ==
    LET good == PayloadSum(MkFrame(size, d0, d1, fill, 0))
    IN  {MkFrame(size, d0, d1, fill, good)}
        \cup {MkFrame(size, d0, d1, fill, FlipBit(good, b)) : b \in flips}

\* frames the device sends in the burst specification
FramesOfSize(size) ==
    UNION {SumFrame(size, d0, d1, 16, {0, 8}) : d0 \in {0, 6}, d1 \in {0, 130}}

BurstFrames16 == FramesOfSize(ADIS_MSG_SIZE_16_BIT_BURST)
BurstFrames32 == FramesOfSize(ADIS_MSG_SIZE_32_BIT_BURST)

BurstFrames(sel) ==
    IF sel = ADIS_16_BIT_BURST_SIZE THEN BurstFrames16 ELSE BurstFrames32

\* burst_data_size values the caller passes
BurstSizes == {0, 2, 19, 255}

\* the caller's buffer before the call: no byte written
Untouched == [i \in 1..(ADIS_MSG_SIZE_32_BIT_BURST - ADIS_CHECKSUM_SIZE + BufSlack) |-> -1]

\* the two bytes the device sends while it receives the command
BurstHeads == {<<0, 0>>, <<255, 3>>}

BurstCall(sel, size, r, err, head, frame) ==
    [Call("read_burst_data", 0, sel, {}, Bits(size), r.ret, Bits(r.bytes),
          r.msgs, current_page, << err >>)
        EXCEPT !.frame = frame, !.head = head]

ReadBurstData ==
    \E sel \in {ADIS_16_BIT_BURST_SIZE, ADIS_32_BIT_BURST_SIZE},
       size \in BurstSizes :
    \/ \E frame \in BurstFrames(sel), head \in BurstHeads :
       \E r \in {adis_read_burst_data(diag_flags, size, Untouched, sel, "OK",
                                      head \o frame)} :
            /\ diag_flags' = r.flags
            /\ burst_data' = r.buf
            /\ last' = BurstCall(sel, size, r, "OK", head, frame)
            /\ UNCHANGED <<life, has_paging, current_page, dev, calc>>
    \/ \E err \in BusErrors :
       \E r \in {adis_read_burst_data(diag_flags, size, Untouched, sel, err, << >>)} :
            /\ diag_flags' = r.flags
            /\ burst_data' = r.buf
            /\ last' = BurstCall(sel, size, r, err, << >>, << >>)
            /\ UNCHANGED <<life, has_paging, current_page, dev, calc>>

ReadDiagStat ==
    \E o \in ReadOutcomes(current_page, DiagStatField.reg_addr,
                          DiagStatField.reg_size) :
    \E x \in {adis_read_diag_stat(current_page, dev, diag_flags, o)} :
        /\ current_page' = x.r.page
        /\ dev' = x.r.dev
        /\ diag_flags' = x.flags
        /\ last' = [Call("read_diag_stat", DiagStatField.reg_addr,
                         DiagStatField.reg_size, {}, {}, x.r.ret, x.r.val,
                         x.r.msgs, current_page, BusLog1(x.r.msgs, o))
                        EXCEPT !.snap = x.snap]
        /\ UNCHANGED <<life, has_paging, burst_data, calc>>

ReadFlsMemWrCntr ==
    \E o \in ReadOutcomes(current_page, FlsMemWrCntrField.reg_addr,
                          FlsMemWrCntrField.reg_size) :
    \E x \in {adis_read_fls_mem_wr_cntr(current_page, dev, diag_flags, o)} :
        /\ current_page' = x.r.page
        /\ dev' = x.r.dev
        /\ diag_flags' = x.flags
        /\ last' = Call("read_fls_mem_wr_cntr", FlsMemWrCntrField.reg_addr,
                        FlsMemWrCntrField.reg_size, FlsMemWrCntrField.field_mask,
                        {}, x.r.ret, x.r.val, x.r.msgs, current_page,
                        BusLog1(x.r.msgs, o))
        /\ UNCHANGED <<life, has_paging, burst_data, calc>>

\* the device's registers as a function of the byte address
RegImage(f, v) ==
    [a \in f.reg_addr..(f.reg_addr + f.reg_size - 1) |-> ByteOf(v, a - f.reg_addr)]

\* burst acquisition and diagnostics: the device holds a status word and a
\* write-cycle count when the handle is attached
InitBurst ==
    /\ has_paging = TRUE
    /\ current_page = InitPage(has_paging)
    /\ diag_flags = NoFlags
    /\ \E st \in {{}, 1..10}, cnt \in {Bits(FlsMemWrCntrMax), Bits(FlsMemWrCntrMax + 1)} :
         dev = [page |-> 0,
                mem |-> RegImage(DiagStatField, st) @@ RegImage(FlsMemWrCntrField, cnt)]
    /\ burst_data = Untouched
    /\ last = NoCall
    /\ calc = NoCalc
    /\ Attached

NextBurst ==
    \/ ReadBurstData
    \/ ReadDiagStat
    \/ ReadFlsMemWrCntr

SpecBurst == InitBurst /\ [][NextBurst]_vars

(***************************************************************************)
(* The diagnostic snapshot under every operation that can reach it: the    *)
(* status read, the per-flag accessors, the burst read, the write-cycle    *)
(* counter read, raw register accesses and field writes, on a chip without *)
(* paging whose status register holds one of several words.                *)
(***************************************************************************)
\* status words the device reports: none, every flag, two flags, and bits
\* that belong to no flag
DiagWords == {{}, 1..10, {1, 8}, {0, 9, 11, 15}}

\* the ten accessors of the register flags
ReadDiagFlag ==
    \E f \in RegFlags :
    \E o \in ReadOutcomes(current_page, DiagStatField.reg_addr,
                          DiagStatField.reg_size) :
    \E x \in {adis_read_diag_flag(current_page, dev, diag_flags, f, o)} :
        /\ current_page' = x.r.page
        /\ dev' = x.r.dev
        /\ diag_flags' = x.flags
        /\ last' = [Call("read_diag_flag", DiagStatField.reg_addr,
                         DiagStatField.reg_size, {}, {}, x.r.ret, x.out,
                         x.r.msgs, current_page, BusLog1(x.r.msgs, o))
                        EXCEPT !.snap = x.snap, !.flag = f]
        /\ UNCHANGED <<life, has_paging, burst_data, calc>>

ReadDiagChecksumErr ==
    /\ last' = [Call("read_diag_checksum_err", 0, 0, {}, {}, "OK",
                     adis_read_diag_checksum_err(diag_flags), << >>,
                     current_page, << >>)
                    EXCEPT !.flag = "checksum_err"]
    /\ UNCHANGED <<life, has_paging, current_page, diag_flags, dev, burst_data, calc>>

ReadDiagFlsMemWrCntExceed ==
    /\ last' = [Call("read_diag_fls_mem_wr_cnt_exceed", 0, 0, {}, {}, "OK",
                     adis_read_diag_fls_mem_wr_cnt_exceed(diag_flags), << >>,
                     current_page, << >>)
                    EXCEPT !.flag = "fls_mem_wr_cnt_exceed"]
    /\ UNCHANGED <<life, has_paging, current_page, diag_flags, dev, burst_data, calc>>

\* frames of the diagnostic specification: a valid and a corrupted frame
\* for a clear and a non-zero first byte
DiagFrames(sel) ==
    UNION {SumFrame(burst_size_bytes(sel), d0, 0, 16, {0}) : d0 \in {0, 6}}

\* adis_read_burst_data with a two-byte request
ReadBurstDiag ==
    \E sel \in {ADIS_16_BIT_BURST_SIZE, ADIS_32_BIT_BURST_SIZE} :
    \/ \E frame \in DiagFrames(sel) :
       \E r \in {adis_read_burst_data(diag_flags, 2, Untouched, sel, "OK",
                                      <<0, 0>> \o frame)} :
            /\ diag_flags' = r.flags
            /\ burst_data' = r.buf
            /\ last' = BurstCall(sel, 2, r, "OK", <<0, 0>>, frame)
            /\ UNCHANGED <<life, has_paging, current_page, dev, calc>>
    \/ \E err \in BusErrors :
       \E r \in {adis_read_burst_data(diag_flags, 2, Untouched, sel, err, << >>)} :
            /\ diag_flags' = r.flags
            /\ burst_data' = r.buf
            /\ last' = BurstCall(sel, 2, r, err, << >>, << >>)
            /\ UNCHANGED <<life, has_paging, current_page, dev, calc>>

InitDiag ==
    /\ has_paging = FALSE
    /\ current_page = InitPage(has_paging)
    /\ diag_flags = NoFlags
    /\ \E st \in DiagWords,
          cnt \in {Bits(FlsMemWrCntrMax), Bits(FlsMemWrCntrMax + 1)} :
         dev = [page |-> 0,
                mem |-> RegImage(DiagStatField, st) @@ RegImage(FlsMemWrCntrField, cnt)]
    /\ burst_data = Untouched
    /\ last = NoCall
    /\ calc = NoCalc
    /\ Attached

NextDiag ==
    \/ ReadDiagStat
    \/ ReadDiagFlag
    \/ ReadDiagChecksumErr
    \/ ReadDiagFlsMemWrCntExceed
    \/ ReadBurstDiag
    \/ ReadFlsMemWrCntr
    \/ ReadReg
    \/ WriteReg
    \/ WriteFieldU32

SpecDiag == InitDiag /\ [][NextDiag]_vars

(***************************************************************************)
(* Synchronisation mode and clock up-scale.                                *)
(***************************************************************************)
\* the outcomes of the transfers of one call: all succeed, or the transfer
\* number fail is the first that fails, with outcome o (an I/O error after
\* the device took the first message, or a timeout before it)
OkAll == [err |-> "OK", k |-> 0]
FailOutcomes == {[err |-> "EIO", k |-> 1], [err |-> "ETIMEDOUT", k |-> 0]}
BusRuns(n) == {[fail |-> 0, o |-> OkAll]} \cup [fail : 1..n, o : FailOutcomes]
OutcomeAt(run, i) == IF run.fail = i THEN run.o ELSE OkAll

\* adis_write_field_u32 with what the transport reported
WriteFieldBus(cur, d, f, v, o1, o2) ==
    LET Logged(w) ==
            [ret |-> w.ret, page |-> w.page, dev |-> w.dev, msgs |-> w.msgs,
             bus |-> BusLog2(w.msgs, o1, o2)]
    IN  Logged(adis_write_field_u32(cur, d, f, v, o1, o2))

UpScaleOutOfBand_UpperOnly(clk, up_scale) == clk * up_scale > 2100

\* adis->clk_freq * up_scale > 2100 || adis->clk_freq * up_scale < 1900
\* (the product stays far below 2^32 for the values of the model)
UpScaleOutOfBand(clk, up_scale) ==
    clk * up_scale > 2100 \/ clk * up_scale < 1900

\* adis_write_up_scale: the transfers are number base + 1 .. base + 3 of
\* the run
adis_write_up_scale(cur, d, clk, up_scale, run, base) ==
    LET After(r, w) ==
            [w EXCEPT !.msgs = r.msgs \o w.msgs, !.bus = << "OK" >> \o w.bus]
        Write(r) ==
            IF r.ret # "OK"
            THEN [ret |-> r.ret, page |-> r.page, dev |-> r.dev,
                  msgs |-> r.msgs, bus |-> << r.ret >>]
            ELSE IF /\ r.val = Bits(ADIS_SYNC_SCALED)
                    /\ UpScaleOutOfBand(clk, up_scale)
            THEN [ret |-> "EINVAL", page |-> r.page, dev |-> r.dev,
                  msgs |-> r.msgs, bus |-> << "OK" >>]
            ELSE After(r, WriteFieldBus(r.page, r.dev, UpScaleField,
                                        Bits(up_scale),
                                        OutcomeAt(run, base + 2),
                                        OutcomeAt(run, base + 3)))
    IN  Write(adis_read_field_u32(cur, d, SyncModeField,
                                  OutcomeAt(run, base + 1)))

\* sync_mode > adis->info->sync_mode_max
SyncModeTooBig(inf, sync_mode) == sync_mode > inf.sync_mode_max

\* the sync pulse is external
SyncExternal(sync_mode) ==
    sync_mode # ADIS_SYNC_DEFAULT /\ sync_mode # ADIS_SYNC_OUTPUT

ExtClkOutOfRange_UpperOnly(inf, sync_mode, clk) ==
    clk > inf.sync_clk_freq_limits[sync_mode].max_freq

\* ext_clk outside the limits of the mode
ExtClkOutOfRange(inf, sync_mode, clk) ==
    \/ clk < inf.sync_clk_freq_limits[sync_mode].min_freq
    \/ clk > inf.sync_clk_freq_limits[sync_mode].max_freq

\* the default up-scale of scaled sync
DefaultUpScale(clk) == 2100 \div clk

\* adis_write_sync_mode: clk and ext are adis->clk_freq and adis->ext_clk
\* before the call, ext_arg the frequency passed
adis_write_sync_mode(cur, d, inf, clk, ext, sync_mode, ext_arg, run) ==
    LET Done(w, c, e) ==
            [ret |-> w.ret, page |-> w.page, dev |-> w.dev, msgs |-> w.msgs,
             bus |-> w.bus, clk_freq |-> c, ext_clk |-> e]
        Rejected ==
            [ret |-> "EINVAL", page |-> cur, dev |-> d, msgs |-> << >>,
             bus |-> << >>, clk_freq |-> clk, ext_clk |-> ext]
        mode == Bits(sync_mode)
        After(u, w) ==
            [w EXCEPT !.msgs = u.msgs \o w.msgs, !.bus = u.bus \o w.bus]
        Scaled(u) ==
            IF u.ret # "OK" THEN Done(u, ext_arg, ext_arg)
            ELSE Done(After(u, WriteFieldBus(u.page, u.dev, SyncModeField,
                                             mode, OutcomeAt(run, 4),
                                             OutcomeAt(run, 5))),
                      ext_arg, ext_arg)
    IN  IF SyncModeTooBig(inf, sync_mode) THEN Rejected
        ELSE IF SyncExternal(sync_mode)
        THEN IF ExtClkOutOfRange(inf, sync_mode, ext_arg) THEN Rejected
             ELSE IF sync_mode = ADIS_SYNC_SCALED
             THEN Scaled(adis_write_up_scale(cur, d, ext_arg,
                                             DefaultUpScale(ext_arg), run, 0))
             ELSE Done(WriteFieldBus(cur, d, SyncModeField, mode,
                                     OutcomeAt(run, 1), OutcomeAt(run, 2)),
                       ext_arg, ext_arg)
        ELSE Done(WriteFieldBus(cur, d, SyncModeField, mode,
                                OutcomeAt(run, 1), OutcomeAt(run, 2)),
                  inf.int_clk, ext)

\* the transfers a call of adis_write_sync_mode can reach
SyncTransfers(inf, sync_mode, ext_arg) ==
    IF \/ SyncModeTooBig(inf, sync_mode)
       \/ SyncExternal(sync_mode) /\ ExtClkOutOfRange(inf, sync_mode, ext_arg)
    THEN 0
    ELSE IF sync_mode = ADIS_SYNC_SCALED THEN 5 ELSE 2

\* the record of a call of adis_write_sync_mode: val is the mode and out
\* the frequency passed
SyncCall(sync_mode, ext_arg, r) ==
    Call("write_sync_mode", SyncModeField.reg_addr, SyncModeField.reg_size,
         SyncModeField.field_mask, Bits(sync_mode), r.ret, Bits(ext_arg),
         r.msgs, current_page, r.bus)

\* modes and frequencies callers pass: every mode of the chip and the one
\* above, and the frequencies around the limits of the modes
SyncModes == ADIS_SYNC_DEFAULT..(ADIS_SYNC_OUTPUT + 1)
ExtClks == {0, 100, 211, 1899, 1900, 2100, 2101}
\* a mode that is not externally clocked ignores the frequency
SyncClks(sync_mode) ==
    IF sync_mode \in {ADIS_SYNC_DIRECT, ADIS_SYNC_SCALED} THEN ExtClks
    ELSE {0, 2101}

WriteSyncMode ==
    /\ pc = "ready"
    /\ \E sync_mode \in SyncModes : \E f \in SyncClks(sync_mode) :
       \E run \in BusRuns(SyncTransfers(info, sync_mode, f)) :
       \E r \in {adis_write_sync_mode(current_page, dev, info, clk_freq,
                                      ext_clk, sync_mode, f, run)} :
            /\ current_page' = r.page
            /\ dev' = r.dev
            /\ clk_freq' = r.clk_freq
            /\ ext_clk' = r.ext_clk
            /\ last' = SyncCall(sync_mode, f, r)
            /\ UNCHANGED <<has_paging, diag_flags, burst_data, calc, info,
                           gpio_reset, pc, trace, heap, peer, thr>>

\* the registers of the device the bring-up and the sync programming touch
LifeImage(st, prod) ==
    RegImage(DiagStatField, st) @@ RegImage(SyncModeField, {})
    @@ RegImage(UpScaleField, {}) @@ RegImage(SwResField, {})
    @@ RegImage(ProdIdField, Bits(prod))

\* sync programming on a handle that adis_init has handed out, for the
\* scaled-sync limits of each chip variant
InitSync ==
    /\ has_paging = FALSE
    /\ current_page = InitPage(has_paging)
    /\ diag_flags = NoFlags
    /\ dev = [page |-> 0, mem |-> LifeImage({}, ChipProdId)]
    /\ burst_data = << >>
    /\ last = NoCall
    /\ calc = NoCalc
    /\ \E sm \in ScaledMaxFreqs :
         info = ChipInfo(ADIS_SYNC_OUTPUT, sm,
                         InitParam(FALSE, ADIS_SYNC_DEFAULT, 0))
    /\ gpio_reset = FALSE
    /\ clk_freq = IntClk
    /\ ext_clk = 0
    /\ pc = "ready"
    /\ trace = << >>
    /\ heap = HandedOut(FALSE)
    /\ peer = NoPeer
    /\ thr = NoCallers

NextSync == WriteSyncMode

SpecSync == InitSync /\ [][NextSync]_vars

(***************************************************************************)
(* The bounded configuration writers, adis_write_up_scale and              *)
(* adis_update_ext_clk_freq on a handle that adis_init has handed out.     *)
(***************************************************************************)
\* the writers of a bounded field: the field of info->field_map, the
\* largest value accepted and the delay of info->timeouts that follows
BoundedWriters ==
    [adis_write_dec_rate |->
        [field |-> Field(100, ADIS_2_BYTES_SIZE, 0..10), max |-> 1999,
         delay |-> "dec_rate_update_us"],
     adis_write_filt_size_var_b |->
        [field |-> Field(92, ADIS_2_BYTES_SIZE, 0..2), max |-> 6,
         delay |-> "filt_size_var_b_update_us"],
     adis_write_dr_polarity |->
        [field |-> Field(96, ADIS_2_BYTES_SIZE, {0}), max |-> 1,
         delay |-> "msc_reg_update_us"],
     adis_write_sync_polarity |->
        [field |-> Field(96, ADIS_2_BYTES_SIZE, {1}), max |-> 1,
         delay |-> "msc_reg_update_us"]]

adis_write_bounded_CheckLate(cur, d, w, v, run) ==
    LET Done(x) ==
            [ret |-> IF v > w.max THEN "EINVAL" ELSE x.ret, page |-> x.page,
             dev |-> x.dev, msgs |-> x.msgs, bus |-> x.bus,
             delay |-> IF x.ret = "OK" /\ v <= w.max THEN w.delay ELSE ""]
    IN  Done(WriteFieldBus(cur, d, w.field, Bits(v), OutcomeAt(run, 1),
                           OutcomeAt(run, 2)))

adis_write_bounded_AlwaysDelay(cur, d, w, v, run) ==
    LET Done(x) ==
            [ret |-> x.ret, page |-> x.page, dev |-> x.dev, msgs |-> x.msgs,
             bus |-> x.bus, delay |-> w.delay]
    IN  IF v > w.max
        THEN [ret |-> "EINVAL", page |-> cur, dev |-> d, msgs |-> << >>,
              bus |-> << >>, delay |-> ""]
        ELSE Done(WriteFieldBus(cur, d, w.field, Bits(v), OutcomeAt(run, 1),
                                OutcomeAt(run, 2)))

\* adis_write_dec_rate, adis_write_filt_size_var_b, adis_write_dr_polarity
\* and adis_write_sync_polarity: the check against the maximum, the field
\* write, and the delay after a write that succeeded
adis_write_bounded(cur, d, w, v, run) ==
    LET Done(x) ==
            [ret |-> x.ret, page |-> x.page, dev |-> x.dev, msgs |-> x.msgs,
             bus |-> x.bus, delay |-> IF x.ret = "OK" THEN w.delay ELSE ""]
    IN  IF v > w.max
        THEN [ret |-> "EINVAL", page |-> cur, dev |-> d, msgs |-> << >>,
              bus |-> << >>, delay |-> ""]
        ELSE Done(WriteFieldBus(cur, d, w.field, Bits(v), OutcomeAt(run, 1),
                                OutcomeAt(run, 2)))

\* adis_update_ext_clk_freq: ext is adis->ext_clk before the call
adis_update_ext_clk_freq(cur, d, inf, ext, clk, run) ==
    LET Checked(r) ==
            IF r.ret # "OK"
            THEN [ret |-> r.ret, page |-> r.page, dev |-> r.dev,
                  msgs |-> r.msgs, bus |-> << r.ret >>, ext_clk |-> ext]
            ELSE IF /\ SyncExternal(Nat31(r.val))
                    /\ ExtClkOutOfRange(inf, Nat31(r.val), clk)
            THEN [ret |-> "EINVAL", page |-> r.page, dev |-> r.dev,
                  msgs |-> r.msgs, bus |-> << "OK" >>, ext_clk |-> ext]
            ELSE [ret |-> "OK", page |-> r.page, dev |-> r.dev,
                  msgs |-> r.msgs, bus |-> << "OK" >>, ext_clk |-> clk]
    IN  Checked(adis_read_field_u32(cur, d, SyncModeField, OutcomeAt(run, 1)))

\* the largest accepted value and the one above it
WriteBounded ==
    /\ pc = "ready"
    /\ \E name \in DOMAIN BoundedWriters :
       \E v \in {BoundedWriters[name].max, BoundedWriters[name].max + 1} :
       \E run \in BusRuns(IF v > BoundedWriters[name].max THEN 0 ELSE 2) :
       \E r \in {adis_write_bounded(current_page, dev, BoundedWriters[name],
                                    v, run)} :
            /\ current_page' = r.page
            /\ dev' = r.dev
            /\ last' = [Call(name, BoundedWriters[name].field.reg_addr,
                             BoundedWriters[name].field.reg_size,
                             BoundedWriters[name].field.field_mask, Bits(v),
                             r.ret, {}, r.msgs, current_page, r.bus)
                            EXCEPT !.delay = r.delay]
            /\ UNCHANGED <<has_paging, diag_flags, burst_data, calc, life>>

\* up-scale factors in and out of the band of a 2000 Hz and of a 100 Hz
\* clock
WriteUpScale ==
    /\ pc = "ready"
    /\ \E up_scale \in {1, 2, 20} : \E run \in BusRuns(3) :
       \E r \in {adis_write_up_scale(current_page, dev, clk_freq, up_scale,
                                     run, 0)} :
            /\ current_page' = r.page
            /\ dev' = r.dev
            /\ last' = Call("write_up_scale", UpScaleField.reg_addr,
                            UpScaleField.reg_size, UpScaleField.field_mask,
                            Bits(up_scale), r.ret, Bits(clk_freq), r.msgs,
                            current_page, r.bus)
            /\ UNCHANGED <<has_paging, diag_flags, burst_data, calc, life>>

UpdateExtClkFreq ==
    /\ pc = "ready"
    /\ \E clk \in {120, 2101} : \E run \in BusRuns(1) :
       \E r \in {adis_update_ext_clk_freq(current_page, dev, info, ext_clk,
                                          clk, run)} :
            /\ current_page' = r.page
            /\ dev' = r.dev
            /\ ext_clk' = r.ext_clk
            /\ last' = Call("update_ext_clk_freq", SyncModeField.reg_addr,
                            SyncModeField.reg_size, SyncModeField.field_mask,
                            Bits(clk), r.ret, {}, r.msgs, current_page, r.bus)
            /\ UNCHANGED <<has_paging, diag_flags, burst_data, calc, info,
                           gpio_reset, clk_freq, pc, trace, heap, peer,
                           thr>>

\* the device holds the largest value of each bounded field, in default
\* sync mode
ConfigImage ==
    RegImage(BoundedWriters.adis_write_dr_polarity.field, {0, 1})
    @@ RegImage(BoundedWriters.adis_write_dec_rate.field,
                Bits(BoundedWriters.adis_write_dec_rate.max))
    @@ RegImage(BoundedWriters.adis_write_filt_size_var_b.field,
                Bits(BoundedWriters.adis_write_filt_size_var_b.max))
    @@ LifeImage({}, ChipProdId)

InitConfig ==
    /\ has_paging = FALSE
    /\ current_page = InitPage(has_paging)
    /\ diag_flags = NoFlags
    /\ dev = [page |-> 0,
              mem |-> [a \in DOMAIN ConfigImage |-> ConfigImage[a]]]
    /\ burst_data = << >>
    /\ last = NoCall
    /\ calc = NoCalc
    /\ Attached

NextConfig ==
    \/ WriteSyncMode
    \/ WriteUpScale
    \/ UpdateExtClkFreq
    \/ WriteBounded

SpecConfig == InitConfig /\ [][NextConfig]_vars

(***************************************************************************)
(* adis_init and adis_initial_startup.  pc is the step adis_init reaches   *)
(* next; trace records the steps that returned, each with its result and   *)
(* the delay that followed it.                                             *)
(***************************************************************************)
UsesResetLine_Never(gpio) == FALSE

\* if (adis->gpio_reset)
UsesResetLine(gpio) == gpio

StartupRet_Strict(prod_id, expected) ==
    IF prod_id # expected THEN "ENODEV" ELSE "OK"

\* what adis_initial_startup returns after a product-ID read that
\* succeeded: a mismatch is reported by pr_warning only
StartupRet(prod_id, expected) == "OK"

AfterStep_Regardless(step, ret) ==
    CASE step = "start" -> "reset"
      [] step = "reset" -> "self_test"
      [] step = "self_test" -> "fls_mem_test"
      [] step = "fls_mem_test" -> "diag_stat"
      [] step = "diag_stat" -> "prod_id"
      [] step = "prod_id" -> "sync_mode"
      [] OTHER -> "ready"

AfterStep_Retry(step, ret) ==
    IF ret # "OK" THEN step
    ELSE AfterStep_Regardless(step, ret)

\* the step that follows a step that returned ret: every failure leaves
\* adis_init through its error path
AfterStep(step, ret) ==
    IF ret # "OK" THEN "failed"
    ELSE CASE step = "start" -> "reset"
           [] step = "reset" -> "self_test"
           [] step = "self_test" -> "fls_mem_test"
           [] step = "fls_mem_test" -> "diag_stat"
           [] step = "diag_stat" -> "prod_id"
           [] step = "prod_id" -> "sync_mode"
           [] OTHER -> "ready"

\* the commands: the field mask written to the command register, and the
\* delay that follows a write that succeeded
adis_cmd_sw_res(cur, d, o) ==
    LET w == adis_write_reg(cur, d, SwResField.reg_addr,
                            SwResField.field_mask, SwResField.reg_size, o)
    IN  [w |-> w, delay |-> IF w.ret = "OK" THEN "sw_reset_ms" ELSE ""]

adis_cmd_snsr_self_test(cur, d, o) ==
    LET w == adis_write_reg(cur, d, SnsrSelfTestField.reg_addr,
                            SnsrSelfTestField.field_mask,
                            SnsrSelfTestField.reg_size, o)
    IN  [w |-> w, delay |-> IF w.ret = "OK" THEN "self_test_ms" ELSE ""]

adis_cmd_fls_mem_test(cur, d, o) ==
    [w |-> adis_write_reg(cur, d, FlsMemTestField.reg_addr,
                          FlsMemTestField.field_mask,
                          FlsMemTestField.reg_size, o),
     delay |-> ""]

\* no_os_free, no_os_spi_remove and no_os_gpio_remove: a resource that is
\* held is released, one that was released is released a second time, and
\* a null descriptor is left alone
Release(st) ==
    CASE st = "held" -> "released"
      [] st = "released" -> "twice"
      [] OTHER -> st

InitErrorPath_KeepBus(h, label) ==
    IF label = "error"
    THEN [h EXCEPT !.gpio_reset = Release(@), !.dev = Release(@)]
    ELSE [h EXCEPT !.dev = Release(@)]

\* the labels error and error_spi of adis_init
InitErrorPath(h, label) ==
    IF label = "error"
    THEN [h EXCEPT !.gpio_reset = Release(@), !.spi_desc = Release(@),
                   !.dev = Release(@)]
    ELSE [h EXCEPT !.dev = Release(@)]

\* what follows a step of adis_init: goto error after a failure, and
\* *adis = dev after the last step
AfterStepHeap(h, next) ==
    IF next = "failed" THEN InitErrorPath(h, "error")
    ELSE IF next = "ready" THEN [h EXCEPT !.adis = TRUE]
    ELSE h

\* adis_init up to adis_initial_startup: the allocation, the bus handle,
\* the cached page and the optional reset line (a line that cannot be
\* obtained is reported by pr_warning only)
AdisInitBegin ==
    /\ pc = "start"
    /\ \E alloc \in {"OK", "ENOMEM"}, spi \in {"OK", "EIO"},
          get \in {"OK", "EIO"}, dir \in {"OK", "EIO"} :
         LET line == alloc = "OK" /\ spi = "OK" /\ info.ip.gpio_reset
                     /\ get = "OK"
             ret == IF alloc # "OK" THEN alloc
                    ELSE IF spi # "OK" THEN spi
                    ELSE IF line /\ dir # "OK" THEN dir
                    ELSE "OK"
         IN  /\ gpio_reset' = line
             /\ current_page' = InitPage(has_paging)
             /\ pc' = AfterStep("start", ret)
             /\ heap' = IF alloc # "OK" THEN heap
                        ELSE IF spi # "OK"
                        THEN InitErrorPath([heap EXCEPT !.dev = "held"],
                                           "error_spi")
                        ELSE AfterStepHeap(
                                [heap EXCEPT
                                    !.dev = "held", !.spi_desc = "held",
                                    !.gpio_reset =
                                        IF line THEN "held" ELSE "none"],
                                AfterStep("start", ret))
    /\ UNCHANGED <<has_paging, diag_flags, dev, burst_data, last, calc, info,
                   clk_freq, ext_clk, trace, peer, thr>>

\* the reset of adis_initial_startup
StartupReset ==
    /\ pc = "reset"
    /\ IF UsesResetLine(gpio_reset)
       THEN \E set \in {"OK", "EIO"} :
              /\ trace' = Append(trace,
                    [step |-> "reset_line", ret |-> set,
                     delay |-> IF set = "OK" THEN "reset_ms" ELSE ""])
              /\ pc' = AfterStep("reset", set)
              /\ last' = Call("gpio_set_value", 0, 0, {}, {}, set, {}, << >>,
                              current_page, << >>)
              /\ UNCHANGED <<current_page, dev>>
       ELSE \E o \in WriteOutcomes(current_page, SwResField.reg_addr,
                                   SwResField.reg_size) :
            \E c \in {adis_cmd_sw_res(current_page, dev, o)} :
              /\ trace' = Append(trace,
                    [step |-> "sw_reset", ret |-> c.w.ret, delay |-> c.delay])
              /\ pc' = AfterStep("reset", c.w.ret)
              /\ current_page' = c.w.page
              /\ dev' = c.w.dev
              /\ last' = Call("cmd_sw_res", SwResField.reg_addr,
                              SwResField.reg_size, {}, SwResField.field_mask,
                              c.w.ret, {}, c.w.msgs, current_page,
                              BusLog1(c.w.msgs, o))
    /\ heap' = AfterStepHeap(heap, pc')
    /\ UNCHANGED <<peer, thr>>
    /\ UNCHANGED <<has_paging, diag_flags, burst_data, calc, info,
                   gpio_reset, clk_freq, ext_clk>>

StartupSelfTest ==
    /\ pc = "self_test"
    /\ \E o \in WriteOutcomes(current_page, SnsrSelfTestField.reg_addr,
                              SnsrSelfTestField.reg_size) :
       \E c \in {adis_cmd_snsr_self_test(current_page, dev, o)} :
         /\ trace' = Append(trace,
               [step |-> "self_test", ret |-> c.w.ret, delay |-> c.delay])
         /\ pc' = AfterStep("self_test", c.w.ret)
         /\ current_page' = c.w.page
         /\ dev' = c.w.dev
         /\ last' = Call("cmd_snsr_self_test", SnsrSelfTestField.reg_addr,
                         SnsrSelfTestField.reg_size, {},
                         SnsrSelfTestField.field_mask, c.w.ret, {}, c.w.msgs,
                         current_page, BusLog1(c.w.msgs, o))
    /\ heap' = AfterStepHeap(heap, pc')
    /\ UNCHANGED <<peer, thr>>
    /\ UNCHANGED <<has_paging, diag_flags, burst_data, calc, info,
                   gpio_reset, clk_freq, ext_clk>>

StartupFlsMemTest ==
    /\ pc = "fls_mem_test"
    /\ \E o \in WriteOutcomes(current_page, FlsMemTestField.reg_addr,
                              FlsMemTestField.reg_size) :
       \E c \in {adis_cmd_fls_mem_test(current_page, dev, o)} :
         /\ trace' = Append(trace,
               [step |-> "fls_mem_test", ret |-> c.w.ret, delay |-> c.delay])
         /\ pc' = AfterStep("fls_mem_test", c.w.ret)
         /\ current_page' = c.w.page
         /\ dev' = c.w.dev
         /\ last' = Call("cmd_fls_mem_test", FlsMemTestField.reg_addr,
                         FlsMemTestField.reg_size, {},
                         FlsMemTestField.field_mask, c.w.ret, {}, c.w.msgs,
                         current_page, BusLog1(c.w.msgs, o))
    /\ heap' = AfterStepHeap(heap, pc')
    /\ UNCHANGED <<peer, thr>>
    /\ UNCHANGED <<has_paging, diag_flags, burst_data, calc, info,
                   gpio_reset, clk_freq, ext_clk>>

StartupDiagStat ==
    /\ pc = "diag_stat"
    /\ \E o \in ReadOutcomes(current_page, DiagStatField.reg_addr,
                             DiagStatField.reg_size) :
       \E x \in {adis_read_diag_stat(current_page, dev, diag_flags, o)} :
         /\ trace' = Append(trace,
               [step |-> "diag_stat", ret |-> x.r.ret, delay |-> ""])
         /\ pc' = AfterStep("diag_stat", x.r.ret)
         /\ current_page' = x.r.page
         /\ dev' = x.r.dev
         /\ diag_flags' = x.flags
         /\ last' = [Call("read_diag_stat", DiagStatField.reg_addr,
                          DiagStatField.reg_size, {}, {}, x.r.ret, x.r.val,
                          x.r.msgs, current_page, BusLog1(x.r.msgs, o))
                         EXCEPT !.snap = x.snap]
    /\ heap' = AfterStepHeap(heap, pc')
    /\ UNCHANGED <<peer, thr>>
    /\ UNCHANGED <<has_paging, burst_data, calc, info, gpio_reset, clk_freq,
                   ext_clk>>

\* the product-ID read and the return of adis_initial_startup
StartupProdId ==
    /\ pc = "prod_id"
    /\ \E o \in ReadOutcomes(current_page, ProdIdField.reg_addr,
                             ProdIdField.reg_size) :
       \E r \in {adis_read_field_u32(current_page, dev, ProdIdField, o)} :
         LET ret == IF r.ret # "OK" THEN r.ret
                    ELSE StartupRet(r.val, Bits(ChipProdId))
         IN  /\ trace' = Append(trace,
                   [step |-> "prod_id", ret |-> ret, delay |-> ""])
             /\ pc' = AfterStep("prod_id", ret)
             /\ current_page' = r.page
             /\ dev' = r.dev
             /\ last' = Call("read_prod_id", ProdIdField.reg_addr,
                             ProdIdField.reg_size, ProdIdField.field_mask, {},
                             r.ret, r.val, r.msgs, current_page,
                             BusLog1(r.msgs, o))
    /\ heap' = AfterStepHeap(heap, pc')
    /\ UNCHANGED <<peer, thr>>
    /\ UNCHANGED <<has_paging, diag_flags, burst_data, calc, info,
                   gpio_reset, clk_freq, ext_clk>>

\* adis_write_sync_mode(dev, info->ip->sync_mode, info->ip->ext_clk) and
\* the hand-over of the handle
InitSyncMode ==
    /\ pc = "sync_mode"
    /\ \E run \in BusRuns(SyncTransfers(info, info.ip.sync_mode,
                                        info.ip.ext_clk)) :
       \E r \in {adis_write_sync_mode(current_page, dev, info, clk_freq,
                                      ext_clk, info.ip.sync_mode,
                                      info.ip.ext_clk, run)} :
         /\ trace' = Append(trace,
               [step |-> "sync_mode", ret |-> r.ret, delay |-> ""])
         /\ pc' = AfterStep("sync_mode", r.ret)
         /\ current_page' = r.page
         /\ dev' = r.dev
         /\ clk_freq' = r.clk_freq
         /\ ext_clk' = r.ext_clk
         /\ last' = SyncCall(info.ip.sync_mode, info.ip.ext_clk, r)
    /\ heap' = AfterStepHeap(heap, pc')
    /\ UNCHANGED <<peer, thr>>
    /\ UNCHANGED <<has_paging, diag_flags, burst_data, calc, info,
                   gpio_reset>>

\* adis_init is entered with a zeroed handle, for each chip variant, with
\* and without a reset line, for a sync mode and clock of each kind, and a
\* device that reports the descriptor's product ID or another
InitBringUp ==
    /\ has_paging \in BOOLEAN
    /\ current_page = 0
    /\ diag_flags = NoFlags
    /\ \E st \in {{}, {1, 8}}, prod \in {ChipProdId, ChipProdId + 1} :
         dev = [page |-> 0, mem |-> LifeImage(st, prod)]
    /\ burst_data = << >>
    /\ last = NoCall
    /\ calc = NoCalc
    /\ \E sm \in ScaledMaxFreqs, line \in BOOLEAN,
          mode \in {ADIS_SYNC_DEFAULT, ADIS_SYNC_SCALED, ADIS_SYNC_OUTPUT + 1},
          clk \in {100, 2000} :
         info = ChipInfo(ADIS_SYNC_OUTPUT, sm, InitParam(line, mode, clk))
    /\ gpio_reset = FALSE
    /\ clk_freq = 0
    /\ ext_clk = 0
    /\ pc = "start"
    /\ trace = << >>
    /\ heap = NoHeap
    /\ peer = NoPeer
    /\ thr = NoCallers

NextBringUp ==
    \/ AdisInitBegin
    \/ StartupReset
    \/ StartupSelfTest
    \/ StartupFlsMemTest
    \/ StartupDiagStat
    \/ StartupProdId
    \/ InitSyncMode

SpecBringUp == InitBringUp /\ [][NextBringUp]_vars

\* the positions of adis_init
InitPositions ==
    {"start", "reset", "self_test", "fls_mem_test", "diag_stat", "prod_id",
     "sync_mode", "ready", "failed"}

\* adis_init leaves the position it is at: a step is pending exactly while
\* adis_init has not returned, and every step of NextBringUp moves pc
InitAdvances ==
    /\ pc \notin {"ready", "failed"}
    /\ pc' \in InitPositions \ {pc}

\* adis_init runs as one sequential call: while a step is pending the
\* processor executes it, and every transfer and delay it starts returns
SpecBringUpLive ==
    InitBringUp /\ [][NextBringUp]_vars /\ WF_pc(InitAdvances)

\* the first use of the handle adis_init handed out: burst reads
BurstWhenReady ==
    /\ pc = "ready"
    /\ ReadBurstDiag

NextAcquire ==
    \/ NextBringUp
    \/ BurstWhenReady

\* the bring-up followed by burst reads on the handle
SpecAcquire == InitBringUp /\ [][NextAcquire]_vars

(***************************************************************************)
(* The flash-memory update command and the write-cycle counter.  The       *)
(* counter register of the device holds a count at or above the maximum of *)
(* the chip and may change between two calls.                              *)
(***************************************************************************)
FlsMemUpdateField == Field(104, ADIS_2_BYTES_SIZE, {3})

adis_cmd_fls_mem_update_NoRead(cur, d, flags, run) ==
    LET Done(w) ==
            [ret |-> w.ret, page |-> w.page, dev |-> w.dev, msgs |-> w.msgs,
             bus |-> << w.ret >>, flags |-> flags, out |-> {}]
    IN  Done(adis_write_reg(cur, d, FlsMemUpdateField.reg_addr,
                            FlsMemUpdateField.field_mask,
                            FlsMemUpdateField.reg_size, OutcomeAt(run, 1)))

\* adis_cmd_fls_mem_update: the command write, and after a write that
\* succeeded adis_read_fls_mem_wr_cntr, whose result is returned
adis_cmd_fls_mem_update(cur, d, flags, run) ==
    LET Counted(w, x) ==
            [ret |-> x.r.ret, page |-> x.r.page, dev |-> x.r.dev,
             msgs |-> w.msgs \o x.r.msgs, bus |-> << "OK", x.r.ret >>,
             flags |-> x.flags,
             out |-> IF x.r.ret = "OK" THEN x.r.val ELSE {}]
        Read(w) ==
            IF w.ret # "OK"
            THEN [ret |-> w.ret, page |-> w.page, dev |-> w.dev,
                  msgs |-> w.msgs, bus |-> << w.ret >>, flags |-> flags,
                  out |-> {}]
            ELSE Counted(w, adis_read_fls_mem_wr_cntr(w.page, w.dev, flags,
                                                      OutcomeAt(run, 2)))
    IN  Read(adis_write_reg(cur, d, FlsMemUpdateField.reg_addr,
                            FlsMemUpdateField.field_mask,
                            FlsMemUpdateField.reg_size, OutcomeAt(run, 1)))

CmdFlsMemUpdate ==
    \E run \in BusRuns(2) :
    \E r \in {adis_cmd_fls_mem_update(current_page, dev, diag_flags, run)} :
        /\ current_page' = r.page
        /\ dev' = r.dev
        /\ diag_flags' = r.flags
        /\ last' = Call("cmd_fls_mem_update", FlsMemUpdateField.reg_addr,
                        FlsMemUpdateField.reg_size, {},
                        FlsMemUpdateField.field_mask, r.ret, r.out, r.msgs,
                        current_page, r.bus)
        /\ UNCHANGED <<life, has_paging, burst_data, calc>>

\* counts the device reports
FlashCounts == {Bits(FlsMemWrCntrMax), Bits(FlsMemWrCntrMax + 1)}

\* the device puts another count into its counter register
DeviceCounts ==
    /\ \E cnt \in FlashCounts :
         dev' = [dev EXCEPT !.mem = RegImage(FlsMemWrCntrField, cnt) @@ @]
    /\ UNCHANGED <<life, has_paging, current_page, diag_flags, burst_data,
                   last, calc>>

InitFlash ==
    /\ has_paging \in BOOLEAN
    /\ current_page = InitPage(has_paging)
    /\ diag_flags = NoFlags
    /\ \E st \in {{}, {1, 8}}, cnt \in FlashCounts :
         dev = [page |-> 0,
                mem |-> RegImage(DiagStatField, st)
                        @@ RegImage(FlsMemWrCntrField, cnt)
                        @@ RegImage(FlsMemUpdateField, {})]
    /\ burst_data = Untouched
    /\ last = NoCall
    /\ calc = NoCalc
    /\ Attached

NextFlash ==
    \/ CmdFlsMemUpdate
    \/ ReadFlsMemWrCntr
    \/ DeviceCounts
    \/ ReadDiagStat
    \/ ReadDiagFlsMemWrCntExceed
    \/ ReadBurstDiag

SpecFlash == InitFlash /\ [][NextFlash]_vars

(***************************************************************************)
(* Two handles, each with the device on its own bus.  The first is the     *)
(* handle of the other sections, the second is held in peer.               *)
(***************************************************************************)
OtherHandle_Shared(mine, theirs) == theirs

\* a member of a handle after a call on another handle: every access of
\* the driver goes through the adis pointer of the call
OtherHandle(mine, theirs) == mine

PeerCall(op, val, ret, out, bus) ==
    [op |-> op, val |-> val, ret |-> ret, out |-> out, bus |-> bus]

\* adis_read_diag_stat on the second handle
PeerReadDiagStat ==
    /\ peer.attached
    /\ \E o \in ReadOutcomes(peer.current_page, DiagStatField.reg_addr,
                              DiagStatField.reg_size) :
       \E x \in {adis_read_diag_stat(peer.current_page, peer.dev,
                                     peer.diag_flags, o)} :
         /\ peer' = [peer EXCEPT
                        !.current_page = x.r.page, !.dev = x.r.dev,
                        !.diag_flags = x.flags,
                        !.last = PeerCall("read_diag_stat", {}, x.r.ret,
                                          x.r.val, BusLog1(x.r.msgs, o))]
         /\ current_page' = OtherHandle(current_page, x.r.page)
         /\ diag_flags' = OtherHandle(diag_flags, x.flags)
    /\ UNCHANGED <<has_paging, dev, burst_data, last, calc, info, gpio_reset,
                   clk_freq, ext_clk, pc, trace, heap, thr>>

\* adis_update_ext_clk_freq on the second handle
PeerUpdateExtClkFreq ==
    /\ peer.attached
    /\ \E clk \in {120, 2101} : \E run \in BusRuns(1) :
       \E r \in {adis_update_ext_clk_freq(peer.current_page, peer.dev, info,
                                          peer.ext_clk, clk, run)} :
         /\ peer' = [peer EXCEPT
                        !.current_page = r.page, !.dev = r.dev,
                        !.ext_clk = r.ext_clk,
                        !.last = PeerCall("update_ext_clk_freq", Bits(clk),
                                          r.ret, {}, r.bus)]
         /\ current_page' = OtherHandle(current_page, r.page)
         /\ ext_clk' = OtherHandle(ext_clk, r.ext_clk)
    /\ UNCHANGED <<has_paging, diag_flags, dev, burst_data, last, calc, info,
                   gpio_reset, clk_freq, pc, trace, heap, thr>>

\* the registers of a device with status word st in sync mode m
PairImage(st, m) ==
    RegImage(DiagStatField, st)
    @@ RegImage(SyncModeField, no_os_field_prep(SyncModeField.field_mask,
                                                Bits(m)))

\* two handles of a paged chip that adis_init has handed out, each device
\* with a status word and a sync mode of its own
InitPair ==
    /\ has_paging = TRUE
    /\ current_page = InitPage(has_paging)
    /\ diag_flags = NoFlags
    /\ \E st \in {{}, {1, 8}}, m \in {ADIS_SYNC_DEFAULT, ADIS_SYNC_SCALED} :
         dev = [page |-> 0, mem |-> PairImage(st, m)]
    /\ burst_data = << >>
    /\ last = NoCall
    /\ calc = NoCalc
    /\ info = ChipInfo(ADIS_SYNC_OUTPUT, 128,
                       InitParam(FALSE, ADIS_SYNC_DEFAULT, 0))
    /\ gpio_reset = FALSE
    /\ clk_freq = IntClk
    /\ ext_clk = 0
    /\ pc = "ready"
    /\ trace = << >>
    /\ heap = HandedOut(FALSE)
    /\ \E st \in {{}, {1, 8}}, m \in {ADIS_SYNC_DEFAULT, ADIS_SYNC_SCALED} :
         peer = [attached |-> TRUE, current_page |-> InitPage(has_paging),
                 diag_flags |-> NoFlags, clk_freq |-> IntClk, ext_clk |-> 0,
                 dev |-> [page |-> 0, mem |-> PairImage(st, m)],
                 last |-> PeerCall("none", {}, "OK", {}, << >>)]
    /\ thr = NoCallers

NextPair ==
    \/ ReadDiagStat
    \/ UpdateExtClkFreq
    \/ PeerReadDiagStat
    \/ PeerUpdateExtClkFreq

SpecPair == InitPair /\ [][NextPair]_vars

(***************************************************************************)
(* Two callers on one handle.  adis_read_reg and adis_write_reg fill       *)
(* adis->tx, hand messages that point into adis->tx and adis->rx to the    *)
(* bus, and store the page and read adis->rx after the transfer; a caller  *)
(* is between two of these steps while the other runs, unless the callers  *)
(* serialize their calls.  All transfers succeed.                          *)
(***************************************************************************)
Callers == {1, 2}

\* the 2-byte registers the callers access: two on page 0, one on page 1
\* at the in-page address of the first
RaceRegs == {4, 8, ADIS_PAGE_SIZE + 4}

\* the registers of the device hold words that tell them apart
RaceImage ==
    [a \in UNION {{r, r + 1} : r \in RaceRegs} |->
        IF a = 4 THEN 1 ELSE IF a = 8 THEN 2
        ELSE IF a = ADIS_PAGE_SIZE + 4 THEN 3 ELSE 0]

\* the offsets into adis->tx of the messages of ReadMsgs and WriteMsgs;
\* the last message of a read has no tx buffer
NoTx == 0 - 1

ReadSlots(cur, reg, size) ==
    (IF NeedPageSelect(cur, PageOf(reg)) THEN << 0 >> ELSE << >>)
    \o (IF size = ADIS_4_BYTES_SIZE THEN << 2 >> ELSE << >>)
    \o << 4, NoTx >>

WriteSlots(cur, reg, size) ==
    (IF NeedPageSelect(cur, PageOf(reg)) THEN << 0 >> ELSE << >>)
    \o [i \in 1..size |-> 2 * i]

\* adis->tx after the bytes of msgs were stored at slots
FillTx(tx, msgs, slots) ==
    [o \in DOMAIN tx |->
        IF \E i \in 1..Len(msgs) : slots[i] = o
        THEN msgs[CHOOSE i \in 1..Len(msgs) : slots[i] = o].tx
        ELSE tx[o]]

\* the messages the bus sees: the bytes adis->tx holds when the transfer
\* runs
SentMsgs(tx, batch) ==
    [i \in 1..Len(batch) |->
        Msg(IF batch[i].slot = NoTx THEN << >> ELSE tx[batch[i].slot],
            batch[i].rx)]

IdleCaller ==
    [pc |-> "idle", n |-> 0, op |-> "none", reg |-> 0, val |-> {},
     page |-> 0, batch |-> << >>]

\* whether caller t may enter a register access
MayEnter(t) ==
    thr.serialized => \A u \in Callers \ {t} : thr.t[u].pc = "idle"

\* up to no_os_spi_transfer: the page compare and the stores into adis->tx
CallerPrepare ==
    /\ thr.on
    /\ \E t \in Callers, op \in {"read_reg", "write_reg"}, reg \in RaceRegs :
         /\ thr.t[t].pc = "idle" /\ thr.t[t].n < MaxCalls
         /\ MayEnter(t)
         /\ LET val == IF op = "write_reg" THEN Bits(7) ELSE {}
                msgs == IF op = "read_reg"
                        THEN ReadMsgs(current_page, reg, ADIS_2_BYTES_SIZE)
                        ELSE WriteMsgs(current_page, reg, val,
                                       ADIS_2_BYTES_SIZE)
                slots == IF op = "read_reg"
                         THEN ReadSlots(current_page, reg, ADIS_2_BYTES_SIZE)
                         ELSE WriteSlots(current_page, reg,
                                         ADIS_2_BYTES_SIZE)
            IN  thr' = [thr EXCEPT
                          !.tx = FillTx(@, msgs, slots),
                          !.t[t] = [pc |-> "prepared", n |-> @.n + 1,
                                    op |-> op, reg |-> reg, val |-> val,
                                    page |-> PageOf(reg),
                                    batch |-> [i \in 1..Len(msgs) |->
                                        [slot |-> slots[i],
                                         rx |-> msgs[i].rx]]]]
    /\ UNCHANGED <<has_paging, current_page, diag_flags, dev, burst_data,
                   last, calc, info, gpio_reset, clk_freq, ext_clk, pc,
                   trace, heap, peer>>

\* no_os_spi_transfer
CallerTransfer ==
    /\ thr.on
    /\ \E t \in Callers :
         /\ thr.t[t].pc = "prepared"
         /\ \E r \in {no_os_spi_transfer(dev,
                                          SentMsgs(thr.tx, thr.t[t].batch),
                                          Len(thr.t[t].batch))} :
              /\ dev' = r.dev
              /\ thr' = [thr EXCEPT
                            !.rx = IF thr.t[t].op = "read_reg" THEN r.rx
                                   ELSE @,
                            !.t[t].pc = "transferred"]
    /\ UNCHANGED <<has_paging, current_page, diag_flags, burst_data, last,
                   calc, info, gpio_reset, clk_freq, ext_clk, pc, trace,
                   heap, peer>>

\* adis->current_page = page, and *val from adis->rx
CallerCommit ==
    /\ thr.on
    /\ \E t \in Callers :
         /\ thr.t[t].pc = "transferred"
         /\ current_page' = PageAfter(current_page, thr.t[t].page, "OK")
         /\ thr' = [thr EXCEPT
                       !.t[t].pc = "idle",
                       !.t[t].val = IF thr.t[t].op = "read_reg"
                                    THEN ReadVal(thr.rx, ADIS_2_BYTES_SIZE)
                                    ELSE @]
    /\ UNCHANGED <<has_paging, diag_flags, dev, burst_data, last, calc, info,
                   gpio_reset, clk_freq, ext_clk, pc, trace, heap, peer>>

\* a paged handle adis_init has handed out, used by two callers that
\* serialize their calls or do not
InitRace ==
    /\ has_paging = TRUE
    /\ current_page = InitPage(has_paging)
    /\ diag_flags = NoFlags
    /\ dev = [page |-> 0, mem |-> RaceImage]
    /\ burst_data = << >>
    /\ last = NoCall
    /\ calc = NoCalc
    /\ info = ChipInfo(ADIS_SYNC_OUTPUT, 128,
                       InitParam(FALSE, ADIS_SYNC_DEFAULT, 0))
    /\ gpio_reset = FALSE
    /\ clk_freq = IntClk
    /\ ext_clk = 0
    /\ pc = "ready"
    /\ trace = << >>
    /\ heap = HandedOut(FALSE)
    /\ peer = NoPeer
    /\ \E ser \in BOOLEAN :
         thr = [on |-> TRUE, serialized |-> ser,
                tx |-> [o \in {0, 2, 4, 6, 8} |-> <<0, 0>>],
                rx |-> <<0, 0>>,
                t |-> [t \in Callers |-> IdleCaller]]

NextRace ==
    \/ CallerPrepare
    \/ CallerTransfer
    \/ CallerCommit

SpecRace == InitRace /\ [][NextRace]_vars

\* register transport: raw register reads and writes
Next ==
    \/ ReadReg
    \/ WriteReg

Spec == Init /\ [][Next]_vars

\* field access: the device's registers hold all zeros or all ones when the
\* handle is attached
InitField ==
    /\ has_paging \in BOOLEAN
    /\ current_page = InitPage(has_paging)
    /\ diag_flags = NoFlags
    /\ dev \in [page : (IF has_paging THEN {0, 1} ELSE {0}),
                mem : {[a \in RegBytes |-> 0], [a \in RegBytes |-> 255]}]
    /\ burst_data = << >>
    /\ last = NoCall
    /\ calc = NoCalc
    /\ Attached

NextField ==
    \/ ReadFieldU32
    \/ ReadFieldS32
    \/ WriteFieldU32

SpecField == InitField /\ [][NextField]_vars

(***************************************************************************)
(* The codec on its own: the checksum validator and the signed decode      *)
(* applied to inputs drawn from bounded sets.                              *)
(***************************************************************************)
\* the widest field mask drawn below 32 bits, and the largest fill byte
MaxWidth == 13
MaxFill == 1

\* payloads of the validator: counting up from a fill byte, all 255, and
\* the bytes 1, 2, 3 followed by zeros
CodecPayloads(size) ==
    {MkFrame(size, f, f + 1, f, 0) : f \in 0..MaxFill}
    \cup {[i \in 1..size |-> IF i <= size - 2 THEN 255 ELSE 0]}
    \cup {[i \in 1..size |-> IF i <= 3 THEN i ELSE 0]}

SetTrailer(frame, t) ==
    [frame EXCEPT ![Len(frame) - 1] = t \div 256, ![Len(frame)] = t % 256]

\* trailers: the exact sum, the sum with one bit flipped, the sum moved by
\* a multiple of 256, and the extremes
CodecTrailers(frame) ==
    LET good == PayloadSum(frame)
    IN  {good, 0, 65535, (good + 256) % 65536, (good + 65536 - 256) % 65536}
        \cup {FlipBit(good, b) : b \in 0..15}

CodecFrames ==
    UNION {{SetTrailer(p, t) : t \in CodecTrailers(p)} :
            p \in CodecPayloads(ADIS_MSG_SIZE_16_BIT_BURST)
                  \cup CodecPayloads(ADIS_MSG_SIZE_32_BIT_BURST)}

\* contiguous masks: n bits from bit lo
MaskAt(lo, n) == lo..(lo + n - 1)

CodecMasks ==
    {MaskAt(0, n) : n \in (1..MaxWidth) \cup {16, 31, 32}}
    \cup {MaskAt(4, 8), MaskAt(12, 4), MaskAt(8, 16), MaskAt(16, 16), MaskAt(31, 1)}

\* register values for a mask: each boundary of the field's range, placed
\* in the field, alone and with every bit outside the field set
CodecRaws(mask) ==
    LET lo == no_os_find_first_set_bit(mask)
        n == Cardinality(mask)
        vals == {{}, {0}, 0..(n - 2), {n - 1}, 0..(n - 1)}
    IN  {Shl(v, lo) \cap mask : v \in vals}
        \cup {(Shl(v, lo) \cap mask) \cup U32Not(mask) : v \in vals}
        \cup {Bits(4095), Bits(2048), Bits(2047)}

ValidateChecksum ==
    \E frame \in CodecFrames :
        /\ calc' = [op |-> "validate_checksum", mask |-> {}, raw |-> {},
                    out |-> {}, frame |-> frame,
                    ok |-> adis_validate_checksum(frame, Len(frame))]
        /\ UNCHANGED <<life, has_paging, current_page, diag_flags, dev, burst_data, last>>

DecodeFieldS32 ==
    \E mask \in CodecMasks : \E raw \in CodecRaws(mask) :
        /\ calc' = [op |-> "read_field_s32", mask |-> mask, raw |-> raw,
                    out |-> FieldS32(mask, raw), frame |-> << >>, ok |-> TRUE]
        /\ UNCHANGED <<life, has_paging, current_page, diag_flags, dev, burst_data, last>>

NextCodec ==
    \/ ValidateChecksum
    \/ DecodeFieldS32

InitCodec == Init /\ has_paging /\ dev.page = 0

SpecCodec == InitCodec /\ [][NextCodec]_vars

(***************************************************************************)
(* Properties of the register transport.                                   *)
(***************************************************************************)
IsRegAccess(c) == c.op \in {"read_reg", "write_reg"}

\* the frames of a batch that write the page-select register
PageSelects(msgs) ==
    {i \in 1..Len(msgs) : msgs[i].tx # << >> /\ msgs[i].tx[1] = 128}

\* the batch starts with the select of page p and holds no other select
SelectsOnce(msgs, p) ==
    /\ PageSelects(msgs) = {1}
    /\ msgs[1].tx = <<128, p>>

\* C1: a successful adis_read_reg / adis_write_reg prepends one page-select
\* (the write of reg / 128 to register 0) exactly when the cached page at
\* call time differs from reg / 128, so the first access of a paged device
\* selects its page, and of two consecutive successful accesses the second
\* selects a page exactly when its page differs from the first one's.
C1_SelectIffPageDiffers ==
    (IsRegAccess(last) /\ last.ret = "OK") =>
        /\ (last.pre_page # PageOf(last.reg)) =>
                SelectsOnce(last.msgs, PageOf(last.reg))
        /\ (last.pre_page = PageOf(last.reg)) => PageSelects(last.msgs) = {}
        /\ (last.pre_page = -1) => SelectsOnce(last.msgs, PageOf(last.reg))

C1_ConsecutiveStep ==
    (/\ IsRegAccess(last) /\ last.ret = "OK"
     /\ IsRegAccess(last') /\ last'.ret = "OK") =>
        IF PageOf(last'.reg) = PageOf(last.reg)
        THEN PageSelects(last'.msgs) = {}
        ELSE SelectsOnce(last'.msgs, PageOf(last'.reg))

C1_PageSwitchElision ==
    [](C1_SelectIffPageDiffers) /\ [][C1_ConsecutiveStep]_vars

\* C1 witness: a successful access within the cached page went out without
\* a page-select, after the sentinel had been replaced
C1_Witness ==
    /\ has_paging
    /\ IsRegAccess(last) /\ last.ret = "OK"
    /\ last.pre_page = PageOf(last.reg)
    /\ last.pre_page = 1
    /\ PageSelects(last.msgs) = {}

\* C2: a failed transfer of adis_read_reg / adis_write_reg leaves the cached
\* page at its pre-call value and returns the transport's error, and the
\* retry of the same access hands the same batch (page-select included) to
\* the bus; a successful transfer sets the cached page to reg / 128.
C2_CacheState ==
    (IsRegAccess(last) /\ last.msgs # << >>) =>
        /\ last.ret = last.bus[Len(last.bus)]
        /\ last.ret = "OK" => current_page = PageOf(last.reg)
        /\ last.ret # "OK" => current_page = last.pre_page

C2_RetryStep ==
    (/\ IsRegAccess(last) /\ last.ret \in BusErrors
     /\ last'.op = last.op /\ last'.reg = last.reg
     /\ last'.size = last.size /\ last'.val = last.val) =>
        last'.msgs = last.msgs

C2_CacheOnlyOnSuccess ==
    [](C2_CacheState) /\ [][C2_RetryStep]_vars

\* C2 witness: the transfer failed after the device took the page-select,
\* and the cache still holds the previous page
C2_Witness ==
    /\ IsRegAccess(last) /\ last.ret \in BusErrors
    /\ last.pre_page = 0 /\ PageOf(last.reg) = 1
    /\ dev.page = 1 /\ current_page = 0

\* the frames of a batch after its page-select
AfterSelect(msgs) ==
    SubSeq(msgs, Cardinality(PageSelects(msgs)) + 1, Len(msgs))

\* C24: adis_read_reg with a size outside {2, 4} and adis_write_reg with a
\* size outside {1, 2, 4} return the invalid-size error, hand no message to
\* the bus and leave the cached page (and the device) as they were.
C24_Step ==
    (\/ last'.op = "read_reg" /\ last'.size \notin {2, 4}
     \/ last'.op = "write_reg" /\ last'.size \notin {1, 2, 4}) =>
        /\ last'.ret = "EINVAL"
        /\ last'.msgs = << >> /\ last'.bus = << >>
        /\ current_page' = current_page
        /\ dev' = dev

C24_InvalidSize == [][C24_Step]_vars

\* C24 witness: a read of one byte was rejected on a paged handle that
\* still holds the sentinel page
C24_Witness ==
    /\ last.op = "read_reg" /\ last.size = 1 /\ last.ret = "EINVAL"
    /\ last.msgs = << >> /\ current_page = -1

\* the value a read of size bytes at reg returns from device d
DevValue(d, reg, size) ==
    IF size = 4
    THEN Shl(Bits(DevWord(d, (reg % 128) + 2)), 16)
         \cup Bits(DevWord(d, reg % 128))
    ELSE Bits(DevWord(d, reg % 128))

\* C28: a 4-byte adis_read_reg sends the read command for reg + 2 before
\* the one for reg, the data of the base register is received last, and
\* the value is (word at reg + 2) * 65536 + (word at reg); a 2-byte read
\* issues 2 transfers and a 4-byte read 3, plus one leading page-select
\* when the page changes, never more than 4 in total.
C28_Step ==
    LET c == last'
        body == AfterSelect(c.msgs)
        a == c.reg % 128
    IN  (c.op = "read_reg" /\ c.size \in {2, 4}) =>
            /\ PageSelects(c.msgs) \subseteq {1}
            /\ (PageSelects(c.msgs) = {1}) <=> (c.pre_page # PageOf(c.reg))
            /\ Len(body) = (IF c.size = 4 THEN 3 ELSE 2)
            /\ Len(c.msgs) <= 4
            /\ (c.size = 4) =>
                    /\ body[1].tx = <<a + 2, 0>> /\ body[1].rx = 0
                    /\ body[2].tx = <<a, 0>> /\ body[2].rx = 1
            /\ (c.size = 2) => (body[1].tx = <<a, 0>> /\ body[1].rx = 1)
            /\ body[Len(body)].tx = << >> /\ body[Len(body)].rx = 2
            /\ (c.ret = "OK") => c.out = DevValue(dev', c.reg, c.size)

C28_ReadOrdering == [][C28_Step]_vars

\* C28 witness: a 4-byte read that changed the page went out as four
\* transfers and returned 0x84030201
C28_Witness ==
    /\ last.op = "read_reg" /\ last.size = 4 /\ last.ret = "OK"
    /\ Len(last.msgs) = 4 /\ PageSelects(last.msgs) = {1}
    /\ last.out = {0, 9, 16, 17, 26, 31}

\* C29: adis_write_reg of size n in {1, 2, 4} emits, after an optional
\* page-select {0x80, page}, exactly n two-byte transfers in ascending
\* address order, the i-th carrying {0x80 | 7-bit address of reg + i - 1,
\* byte i - 1 of the value from the least significant byte}; read commands
\* carry the 7-bit address with the high bit clear; a batch never exceeds
\* 5 transfers.
C29_WriteFraming ==
    /\ (last.op = "write_reg" /\ last.size \in {1, 2, 4}) =>
         LET body == AfterSelect(last.msgs)
         IN  /\ PageSelects(last.msgs) \subseteq {1}
             /\ (PageSelects(last.msgs) = {1}) =>
                    last.msgs[1].tx = <<128, PageOf(last.reg)>>
             /\ Len(body) = last.size
             /\ \A i \in 1..Len(body) :
                    /\ body[i].tx = <<128 + ((last.reg + i - 1) % 128),
                                      ByteOf(last.val, i - 1)>>
                    /\ body[i].rx = 0
             /\ Len(last.msgs) <= 5
    /\ (last.op = "read_reg") =>
         /\ \A i \in 1..Len(last.msgs) \ PageSelects(last.msgs) :
                last.msgs[i].tx # << >> =>
                    /\ last.msgs[i].tx[1] < 128
                    /\ last.msgs[i].tx[1] \in {last.reg % 128,
                                                 (last.reg + 2) % 128}
         /\ Len(last.msgs) <= 5

\* C29 witness: a 4-byte write of 0x84030201 that changed the page went
\* out as five transfers
C29_Witness ==
    /\ last.op = "write_reg" /\ last.size = 4 /\ last.ret = "OK"
    /\ last.val = {0, 9, 16, 17, 26, 31}
    /\ Len(last.msgs) = 5 /\ PageSelects(last.msgs) = {1}
    /\ last.msgs[5].tx = <<128 + 11, 132>>

\* C31: whenever the cached page of the handle is a concrete page p, the
\* device has page p selected, after any sequence of register reads and
\* writes whose transfers may fail, a failed batch whose leading page-select
\* the device already took included; so no register access reaches the bus
\* while the device has a page other than reg / 128 selected.
C31_PageCoherence ==
    (current_page # InitPage(TRUE)) => dev.page = current_page

(***************************************************************************)
(* Properties of field access.                                             *)
(***************************************************************************)
\* the value fits the width of the (contiguous) mask
Fits(mask, v) == v \subseteq 0..(Cardinality(mask) - 1)

BusOk(c) == \A i \in 1..Len(c.bus) : c.bus[i] = "OK"

C3_WriteSucceeds(sizes) ==
    (/\ last.op = "write_field_u32" /\ last.size \in sizes
     /\ Fits(last.mask, last.val) /\ BusOk(last)) => last.ret = "OK"

\* the page the handle has cached is the page the device has selected
Coherent == dev.page = current_page

C3_ReadBackStep(sizes) ==
    (/\ last.op = "write_field_u32" /\ last.ret = "OK" /\ last.size \in sizes
     /\ Coherent
     /\ last'.op = "read_field_u32" /\ last'.ret = "OK"
     /\ last'.reg = last.reg /\ last'.size = last.size
     /\ last'.mask = last.mask) =>
        last'.out = last.val

FieldBitsAt(f, a) ==
    IF a \in f.reg_addr..(f.reg_addr + f.reg_size - 1)
    THEN {b \in 0..7 : (8 * (a - f.reg_addr) + b) \in f.field_mask}
    ELSE {}

\* bit b of a byte
ByteBit(x, b) == (x \div Pow2(b)) % 2

\* C30: after a successful adis_write_field_u32 every register bit outside
\* the field's mask holds the value it had before the call, and the read
\* and the write together issue at most one page-select (the write never
\* selects again the page the read selected).
C30_Step ==
    LET c == last'
        f == Field(c.reg, c.size, c.mask)
    IN  (c.op = "write_field_u32" /\ c.ret = "OK") =>
            /\ \A a \in DOMAIN dev.mem : \A b \in 0..7 :
                    b \notin FieldBitsAt(f, a) =>
                        ByteBit(dev'.mem[a], b) = ByteBit(dev.mem[a], b)
            /\ Cardinality(PageSelects(c.msgs)) <= 1
            /\ PageSelects(c.msgs) \subseteq {1}
            /\ (PageSelects(c.msgs) = {1}) <=> (c.pre_page # PageOf(c.reg))

C9_Rejected ==
    (last.op = "write_field_u32" /\ ~Fits(last.mask, last.val)) =>
        /\ last.ret = "EINVAL"
        /\ last.msgs = << >> /\ last.bus = << >>
        /\ current_page = last.pre_page

C9_FrameStep ==
    (last'.op = "write_field_u32" /\ ~Fits(last'.mask, last'.val)) =>
        (dev' = dev /\ current_page' = current_page)

C9_OutOfRangeWrite == [](C9_Rejected) /\ [][C9_FrameStep]_vars

\* C9 witness: an out-of-range write to a field on the page that is not
\* cached was rejected
C9_Witness ==
    /\ last.op = "write_field_u32" /\ ~Fits(last.mask, last.val)
    /\ last.size = 4 /\ last.ret = "EINVAL"
    /\ current_page # PageOf(last.reg)

(***************************************************************************)
(* Properties of the burst read.                                           *)
(***************************************************************************)
IsBurst(c) == c.op = "read_burst_data"

\* the bus transaction of the burst completed
BurstReceived(c) == IsBurst(c) /\ c.bus = << "OK" >>

\* the trailer of the frame is not the sum of its payload
Mismatch(frame) == Trailer(frame) # PayloadSum(frame)

\* C4: on a checksum mismatch adis_read_burst_data sets checksum-error,
\* returns an error, leaves every other flag of the snapshot at its
\* pre-call value and writes nothing into the caller's buffer.
C4_MismatchStep ==
    (BurstReceived(last') /\ Mismatch(last'.frame)) =>
        /\ last'.ret # "OK"
        /\ diag_flags' = [diag_flags EXCEPT !.checksum_err = TRUE]
        /\ burst_data' = Untouched

C4_BurstChecksumMismatch == [][C4_MismatchStep]_vars

\* C4 witness: a corrupted frame with a zero diagnostic word arrived while
\* register flags and write-count-exceeded were set, and they stayed
C4_Witness ==
    /\ BurstReceived(last) /\ Mismatch(last.frame)
    /\ last.frame[1] = 0 /\ last.frame[2] = 0
    /\ last.ret = "EINVAL" /\ burst_data = Untouched
    /\ diag_flags.checksum_err
    /\ diag_flags.gyro1_failure /\ diag_flags.data_path_overrun
    /\ diag_flags.fls_mem_wr_cnt_exceed

\* the 16-bit diagnostic word of a frame: its first two bytes, big-endian
DiagWord(frame) == Bits(no_os_get_unaligned_be16(frame[1], frame[2]))

\* C5: on success adis_read_burst_data clears checksum-error and sets the
\* ten register flags to the decode of the 16-bit word formed by the first
\* two payload bytes, as adis_read_diag_stat does for that word.
C5_BurstDecodesDiagWord ==
    (BurstReceived(last) /\ last.ret = "OK") =>
        /\ ~diag_flags.checksum_err
        /\ \A f \in RegFlags :
              diag_flags[f] = adis_update_diag_flags(NoFlags, DiagWord(last.frame))[f]

\* C10: on success adis_read_burst_data copies min(max_bytes, frame_size - 2)
\* bytes from the start of the frame into the caller's buffer and no byte
\* beyond, with frame_size 20 for the 16-bit and 32 for the 32-bit burst.
C10_FrameSize(sel) == IF sel = 0 THEN 20 ELSE 32

C10_Copied(c) ==
    LET max_bytes == Nat31(c.val)
        limit == C10_FrameSize(c.size) - 2
    IN  IF max_bytes < limit THEN max_bytes ELSE limit

C10_BurstLength ==
    (BurstReceived(last) /\ last.ret = "OK") =>
        /\ Len(last.frame) = C10_FrameSize(last.size)
        /\ \A i \in 1..Len(burst_data) :
              burst_data[i] = IF i <= C10_Copied(last) THEN last.frame[i] ELSE -1

\* C10 witness: a request for more than the payload of a 16-bit burst was
\* cut to 18 bytes
C10_Witness ==
    /\ BurstReceived(last) /\ last.ret = "OK"
    /\ last.size = 0 /\ last.val = Bits(255)
    /\ burst_data[18] # -1 /\ burst_data[19] = -1

\* C11: every adis_read_burst_data call hands the bus exactly one
\* transaction of frame_size + 2 bytes that starts with the command bytes
\* 0x68 0x00, validates the checksum over the frame alone (the two bytes
\* received during the command do not count), issues no page-select and
\* leaves the cached page and the device's page as they were.
C11_Shape ==
    IsBurst(last) =>
        /\ Len(last.msgs) = 1 /\ Len(last.bus) = 1
        /\ last.msgs[1].tx = <<104, 0>>
        /\ Nat31(last.out) = C10_FrameSize(last.size) + 2
        /\ PageSelects(last.msgs) = {}
        /\ current_page = last.pre_page
        /\ BurstReceived(last) =>
              /\ Len(last.head) = 2
              /\ last.ret = "OK" <=> ~Mismatch(last.frame)

C11_PageStep ==
    IsBurst(last') => (current_page' = current_page /\ dev' = dev)

C11_BurstTransaction == [](C11_Shape) /\ [][C11_PageStep]_vars

\* C11 witness: a valid 32-bit frame arrived behind two non-zero bytes and
\* was accepted, with page 0 cached before and after
C11_Witness ==
    /\ BurstReceived(last) /\ last.ret = "OK"
    /\ last.head = <<255, 3>> /\ last.size = 1
    /\ last.pre_page = 0 /\ current_page = 0

\* what adis_read_reg returns for a size it does not support, and
\* adis_write_field_u32 for a value that does not fit the field
InvalidSizeRet ==
    adis_read_reg(current_page, dev, DiagStatField.reg_addr, 3,
                  [err |-> "OK", k |-> 0]).ret

OutOfRangeRet ==
    adis_write_field_u32(current_page, dev, DiagStatField, {16},
                         [err |-> "OK", k |-> 0], [err |-> "OK", k |-> 0]).ret

\* C25: the value adis_read_burst_data returns for a corrupted frame
\* differs from the value returned for an invalid register size and from
\* the value returned for an out-of-range field or configuration value.
C25_DistinctChecksumError ==
    (IsBurst(last) /\ BurstReceived(last) /\ Mismatch(last.frame)) =>
        /\ last.ret # "OK"
        /\ last.ret # InvalidSizeRet
        /\ last.ret # OutOfRangeRet

\* C36: a burst read whose bus transaction fails returns the error of the
\* transport, leaves the whole diagnostic snapshot unchanged (checksum-error
\* keeps its previous value, neither set nor cleared) and writes nothing to
\* the buffer of the caller.
C36_Step ==
    (/\ last'.op = "read_burst_data"
     /\ last'.bus # << >> /\ last'.bus[1] # "OK") =>
        /\ last'.ret = last'.bus[1]
        /\ diag_flags' = diag_flags
        /\ burst_data' = Untouched

C36_FailedBurstKeepsSnapshot == [][C36_Step]_vars

\* C36 witness: a burst read met a bus error while checksum-error and a
\* register flag were set, and both are still set
C36_Witness ==
    /\ last.op = "read_burst_data" /\ last.ret = "EIO"
    /\ last.bus = << "EIO" >>
    /\ diag_flags.checksum_err /\ diag_flags.snsr_failure
    /\ burst_data = Untouched

(***************************************************************************)
(* Properties of the diagnostics.                                          *)
(***************************************************************************)
IsStatusRead(c) == c.op \in {"read_diag_stat", "read_diag_flag"}

\* the status word handed to the decode by a call that decodes
StatusWord(c) == IF IsBurst(c) THEN Bits(c.frame[1]) ELSE c.out

Decodes(c) ==
    \/ c.op = "read_diag_stat" /\ c.ret = "OK"
    \/ BurstReceived(c) /\ c.ret = "OK"

\* the frames of a batch that request the status register
StatusReads(msgs) ==
    {i \in 1..Len(msgs) :
        msgs[i].tx # << >> /\ msgs[i].tx[1] = DiagStatField.reg_addr}

\* the batch is one read of the status register: its request and the frame
\* that shifts the answer out, behind at most a page-select
OneStatusRead(c) ==
    /\ Len(c.bus) = 1
    /\ Cardinality(StatusReads(c.msgs)) = 1
    /\ Len(c.msgs) = 2 + Cardinality(PageSelects(c.msgs))
    /\ c.msgs[Len(c.msgs)].tx = << >>

\* C12: after adis_update_diag_flags(status_word) each of the ten register
\* flags is true exactly when status_word AND the flag's mask of the chip
\* descriptor is non-zero, whatever the flag was before.
C12_DecodeStep ==
    Decodes(last') =>
        \A f \in RegFlags :
            diag_flags'[f] <=> (StatusWord(last') \cap DiagMasks[f] # {})

C12_DiagDecode == [][C12_DecodeStep]_vars

\* C12 witness: a status word with the gyro2 bit and bits of no flag was
\* decoded into gyro2 failure alone
C12_Witness ==
    /\ last.op = "read_diag_stat" /\ last.ret = "OK"
    /\ last.out = {0, 9, 11, 15}
    /\ \A f \in RegFlags : diag_flags[f] <=> f = "gyro2_failure"

\* C13: a successful adis_read_diag_stat performs one register read of the
\* status field, stores its decode in the snapshot and returns a copy of
\* the whole snapshot after the update, the two locally derived flags
\* included; when the register read fails the snapshot is unchanged and
\* the error is returned.
C13_Step ==
    (last'.op = "read_diag_stat") =>
        /\ OneStatusRead(last')
        /\ last'.ret = last'.bus[1]
        /\ IF last'.ret = "OK"
           THEN /\ \A f \in DOMAIN NoFlags :
                      diag_flags'[f] =
                          IF f \in RegFlags
                          THEN last'.out \cap DiagMasks[f] # {}
                          ELSE diag_flags[f]
                /\ last'.snap = diag_flags'
           ELSE diag_flags' = diag_flags

C13_ReadStatus == [][C13_Step]_vars

\* C13 witness: a status read returned a snapshot that carries register
\* flags and both locally derived flags
C13_Witness ==
    /\ last.op = "read_diag_stat" /\ last.ret = "OK"
    /\ last.snap = diag_flags
    /\ last.snap.gyro1_failure
    /\ last.snap.checksum_err /\ last.snap.fls_mem_wr_cnt_exceed

\* C14: checksum-error and write-count-exceeded persist: no status read,
\* decode, per-flag accessor, register access or field write changes them;
\* checksum-error changes only in a burst read whose transfer completed and
\* write-count-exceeded only in a write-cycle-counter read.
C14_Step ==
    /\ (diag_flags'.checksum_err # diag_flags.checksum_err) =>
            BurstReceived(last')
    /\ (diag_flags'.fls_mem_wr_cnt_exceed # diag_flags.fls_mem_wr_cnt_exceed) =>
            last'.op = "read_fls_mem_wr_cntr"
    /\ (\/ IsStatusRead(last')
        \/ last'.op \in {"read_diag_checksum_err",
                         "read_diag_fls_mem_wr_cnt_exceed",
                         "read_reg", "write_reg", "write_field_u32"}) =>
            /\ diag_flags'.checksum_err = diag_flags.checksum_err
            /\ diag_flags'.fls_mem_wr_cnt_exceed = diag_flags.fls_mem_wr_cnt_exceed

C14_LocalFlagsPersist == [][C14_Step]_vars

\* C14 witness: both locally derived flags were set and a status read of a
\* clear status word left them set
C14_Witness ==
    /\ last.op = "read_diag_stat" /\ last.ret = "OK" /\ last.out = {}
    /\ diag_flags.checksum_err /\ diag_flags.fls_mem_wr_cnt_exceed
    /\ \A f \in RegFlags : ~diag_flags[f]

\* C15: adis_read_diag_checksum_err and adis_read_diag_fls_mem_wr_cnt_exceed
\* return the cached flag without any bus transaction and without changing
\* the handle; every other per-flag accessor performs exactly one read of
\* the status register and returns its flag of the freshly decoded snapshot.
C15_Step ==
    /\ (last'.op \in {"read_diag_checksum_err",
                      "read_diag_fls_mem_wr_cnt_exceed"}) =>
            /\ last'.msgs = << >> /\ last'.bus = << >>
            /\ last'.out = FlagWord(diag_flags[last'.flag])
            /\ last'.op = "read_diag_checksum_err" <=> last'.flag = "checksum_err"
            /\ UNCHANGED <<current_page, diag_flags, dev>>
    /\ (last'.op = "read_diag_flag") =>
            /\ last'.flag \in RegFlags
            /\ OneStatusRead(last')
            /\ (last'.ret = "OK") =>
                  /\ last'.out =
                        FlagWord(Bits(DevWord(dev, DiagStatField.reg_addr))
                                 \cap DiagMasks[last'.flag] # {})
                  /\ last'.out = FlagWord(diag_flags'[last'.flag])

C15_CachedAccessors == [][C15_Step]_vars

\* C15 witness: the cached checksum-error flag was returned as set while
\* write-count-exceeded was clear
C15_Witness ==
    /\ last.op = "read_diag_checksum_err" /\ last.out = {0}
    /\ diag_flags.checksum_err /\ ~diag_flags.fls_mem_wr_cnt_exceed

(***************************************************************************)
(* Properties of the sync-mode programming.                                *)
(***************************************************************************)
IsSyncCall(c) == c.op = "write_sync_mode"

\* the mode and the frequency a call of adis_write_sync_mode was given
SyncModeOf(c) == Nat31(c.val)
SyncFreqOf(c) == Nat31(c.out)

\* the frames of a batch that write a byte of the register of field f
WritesTo(msgs, f) ==
    {i \in 1..Len(msgs) :
        /\ msgs[i].tx # << >>
        /\ msgs[i].tx[1] \in {128 + f.reg_addr, 128 + f.reg_addr + 1}}

\* the 16-bit value a batch writes to the register of field f
Written(msgs, f) ==
    LET B(a) == CHOOSE i \in WritesTo(msgs, f) : msgs[i].tx[1] = 128 + a
    IN  msgs[B(f.reg_addr + 1)].tx[2] * 256 + msgs[B(f.reg_addr)].tx[2]

\* the request names a mode above the chip's maximum, or an externally
\* clocked mode with a frequency outside the range of that mode
C19_Invalid(c) ==
    \/ SyncModeOf(c) > info.sync_mode_max
    \/ /\ SyncModeOf(c) \notin {0, 3}
       /\ \/ SyncFreqOf(c) < info.sync_clk_freq_limits[SyncModeOf(c)].min_freq
          \/ SyncFreqOf(c) > info.sync_clk_freq_limits[SyncModeOf(c)].max_freq

\* C19: adis_write_sync_mode returns the out-of-range error without any
\* bus transfer when the mode exceeds the chip's maximum mode, or when the
\* mode is externally clocked (neither default nor output) and the
\* frequency passed is outside the [min, max] range of that mode.
C19_Step ==
    (IsSyncCall(last') /\ C19_Invalid(last')) =>
        /\ last'.ret = "EINVAL"
        /\ last'.msgs = << >> /\ last'.bus = << >>
        /\ dev' = dev /\ current_page' = current_page

C19_SyncModeValidation == [][C19_Step]_vars

\* C19 witness: direct sync with a clock one below its range was rejected
\* on a handle that had been put into scaled sync
C19_Witness ==
    /\ IsSyncCall(last) /\ SyncModeOf(last) = 1 /\ SyncFreqOf(last) = 1899
    /\ last.ret = "EINVAL" /\ last.msgs = << >>
    /\ DevWord(dev, SyncModeField.reg_addr) = 8

\* C20: whenever adis_write_sync_mode(scaled, f) succeeds, the up-scale it
\* wrote is the largest integer s with f * s <= 2100, the rate f * s lies
\* within [1900, 2100], and the up-scale field was written before the
\* sync-mode field.
C20_ScaledSync ==
    (IsSyncCall(last) /\ SyncModeOf(last) = 2 /\ last.ret = "OK") =>
        LET f == SyncFreqOf(last)
            up == WritesTo(last.msgs, UpScaleField)
            sm == WritesTo(last.msgs, SyncModeField)
            sc == Written(last.msgs, UpScaleField)
        IN  /\ up # {} /\ sm # {}
            /\ \A i \in up : \A j \in sm : i < j
            /\ f * sc <= 2100 /\ f * (sc + 1) > 2100
            /\ f * sc >= 1900 /\ f * sc <= 2100

\* C34: whenever adis_write_sync_mode returns an error, for a validation
\* failure or for a bus failure of the up-scale or sync-mode write, the
\* recorded external clock (ext_clk) and the effective clock (clk_freq) of
\* the handle equal their values before the call.
C34_Step ==
    (IsSyncCall(last') /\ last'.ret # "OK") =>
        (clk_freq' = clk_freq /\ ext_clk' = ext_clk)

C34_FailedSyncKeepsClock == [][C34_Step]_vars

(***************************************************************************)
(* Properties of the configuration writers.                                *)
(***************************************************************************)
\* the sync mode the device holds
DevSyncMode(d) == (DevWord(d, SyncModeField.reg_addr) \div 4) % 4

\* the frames of a batch that write a register
WriteFrames(msgs) ==
    {i \in 1..Len(msgs) : msgs[i].tx # << >> /\ msgs[i].tx[1] >= 128}

\* C21: when the sync-mode register of the device reads scaled sync,
\* adis_write_up_scale(s) is accepted if and only if
\* 1900 <= clk_freq * s <= 2100, so a clock of 2000 Hz accepts s = 1 and
\* rejects s = 2, and a rejected value causes no register write; in every
\* other sync mode the band check is skipped.
C21_Step ==
    LET c == last'
        s == Nat31(c.val)
    IN  (c.op = "write_up_scale" /\ c.bus # << >> /\ c.bus[1] = "OK") =>
            /\ (DevSyncMode(dev) = ADIS_SYNC_SCALED) =>
                    /\ (c.ret # "EINVAL") <=>
                            (1900 <= clk_freq * s /\ clk_freq * s <= 2100)
                    /\ (clk_freq = 2000 /\ s = 1) => c.ret # "EINVAL"
                    /\ (clk_freq = 2000 /\ s = 2) => c.ret = "EINVAL"
            /\ (DevSyncMode(dev) # ADIS_SYNC_SCALED) => c.ret # "EINVAL"
            /\ (c.ret = "EINVAL") =>
                    /\ WriteFrames(c.msgs) = {} /\ Len(c.bus) = 1
                    /\ dev' = dev
            /\ (c.ret # "EINVAL") => Len(c.bus) >= 2
            /\ (c.ret = "OK") => DevWord(dev', UpScaleField.reg_addr) = s

C21_UpScaleValidation == [][C21_Step]_vars

\* C21 witness: on a device in scaled sync with a clock of 2000 Hz the
\* factor 2 was rejected after the factor 1 had been written
C21_Witness ==
    /\ last.op = "write_up_scale" /\ last.ret = "EINVAL"
    /\ Nat31(last.val) = 2 /\ clk_freq = 2000
    /\ DevSyncMode(dev) = ADIS_SYNC_SCALED
    /\ DevWord(dev, UpScaleField.reg_addr) = 1

\* C22: adis_write_dec_rate and adis_write_filt_size_var_b reject a value
\* above the maximum of the device before any bus transfer, and the settle
\* delay of the field is executed if and only if the field write succeeded
\* (none after a validation failure or a bus error), after the write
\* transfer and before the call returns.
C22_Step ==
    LET c == last'
    IN  (c.op \in {"adis_write_dec_rate", "adis_write_filt_size_var_b"}) =>
            /\ (Nat31(c.val) > BoundedWriters[c.op].max) =>
                    /\ c.ret = "EINVAL"
                    /\ c.msgs = << >> /\ c.bus = << >>
                    /\ dev' = dev /\ current_page' = current_page
            /\ (Nat31(c.val) <= BoundedWriters[c.op].max) =>
                    /\ c.ret # "EINVAL"
                    /\ c.ret = c.bus[Len(c.bus)]
            /\ (c.delay # "") <=> (c.ret = "OK")
            /\ (c.ret = "OK") =>
                    /\ c.delay = BoundedWriters[c.op].delay
                    /\ c.bus = << "OK", "OK" >>
                    /\ WriteFrames(c.msgs) # {}

C22_BoundedWrites == [][C22_Step]_vars

\* C22 witness: the largest filter size was written and its settle delay
\* followed
C22_Witness ==
    /\ last.op = "adis_write_filt_size_var_b" /\ Nat31(last.val) = 6
    /\ last.ret = "OK" /\ last.delay = "filt_size_var_b_update_us"
    /\ WriteFrames(last.msgs) # {}

\* the configuration calls that check a value against a constraint
IsConfigCall(c) ==
    c.op \in {"write_sync_mode", "update_ext_clk_freq", "write_up_scale"}
            \cup DOMAIN BoundedWriters

\* the calls whose constraint depends on the sync mode of the device
ReadsModeFirst(c) == c.op \in {"update_ext_clk_freq", "write_up_scale"}

C23_Step ==
    LET c == last'
    IN  (IsConfigCall(c) /\ c.ret = "EINVAL") =>
            /\ WriteFrames(c.msgs) = {}
            /\ c.delay = ""
            /\ dev' = dev
            /\ ~ReadsModeFirst(c) => (c.msgs = << >> /\ c.bus = << >>)
            /\ ReadsModeFirst(c) =>
                    /\ c.bus = << "OK" >> /\ Len(c.msgs) = 2
                    /\ c.msgs[1].tx = <<SyncModeField.reg_addr, 0>>
                    /\ c.msgs[2].tx = << >>

ClockConsistent ==
    IF SyncExternal(DevSyncMode(dev)) THEN clk_freq = ext_clk
    ELSE clk_freq = info.int_clk

IsClockCall(c) == c.op \in {"write_sync_mode", "update_ext_clk_freq"}

\* C35: after any sequence of successful adis_write_sync_mode and
\* adis_update_ext_clk_freq calls, while the device is in an externally
\* clocked sync mode the clock used for the up-scale validation (clk_freq)
\* equals the most recently accepted external clock (ext_clk), and in
\* default or output mode clk_freq equals the internal clock of the chip;
\* stated as what each successful call preserves.
C35_Step ==
    (ClockConsistent /\ IsClockCall(last') /\ last'.ret = "OK") =>
        ClockConsistent'

C35_ClockBookkeeping == [][C35_Step]_vars

(***************************************************************************)
(* Properties of the bring-up.                                             *)
(***************************************************************************)
\* the steps of adis_init in the order of the bring-up
BringUpOrder ==
    <<"reset", "self_test", "fls_mem_test", "diag_stat", "prod_id",
      "sync_mode">>

StepKind(step) ==
    IF step \in {"reset_line", "sw_reset"} THEN "reset" ELSE step

\* the register a step addresses (the reset line addresses none)
StepReg(step) ==
    CASE step = "reset_line" -> 0
      [] step = "sw_reset" -> SwResField.reg_addr
      [] step = "self_test" -> SnsrSelfTestField.reg_addr
      [] step = "fls_mem_test" -> FlsMemTestField.reg_addr
      [] step = "diag_stat" -> DiagStatField.reg_addr
      [] step = "prod_id" -> ProdIdField.reg_addr
      [] OTHER -> SyncModeField.reg_addr

\* a step of the bring-up has returned
StepDone == trace' # trace

\* the frames of a batch that set the software-reset bit of the command
\* register
SwResFrames(msgs) ==
    {i \in 1..Len(msgs) :
        /\ msgs[i].tx # << >>
        /\ msgs[i].tx[1] = 128 + SwResField.reg_addr
        /\ msgs[i].tx[2] >= 128}

\* C16: adis_init performs reset, sensor self-test command,
\* flash-memory-test command, diagnostic status read, product-ID read and
\* sync-mode programming in exactly this order; a step starts only after
\* every earlier step succeeded, and the handle is handed to the caller
\* only after the sync-mode programming succeeded.
C16_Step ==
    /\ StepDone =>
         LET n == Len(trace')
         IN  /\ n = Len(trace) + 1 /\ n <= Len(BringUpOrder)
             /\ SubSeq(trace', 1, n - 1) = trace
             /\ StepKind(trace'[n].step) = BringUpOrder[n]
             /\ \A i \in 1..(n - 1) : trace[i].ret = "OK"
             /\ last'.reg = StepReg(trace'[n].step)
             /\ last'.ret = trace'[n].ret
    /\ (pc' = "ready" /\ pc # "ready") =>
         /\ StepDone /\ Len(trace') = Len(BringUpOrder)
         /\ trace'[Len(trace')].step = "sync_mode"
         /\ trace'[Len(trace')].ret = "OK"
         /\ IsSyncCall(last')

C16_BringUpOrder == [][C16_Step]_vars

\* C16 witness: a bring-up through the software reset that programmed
\* scaled sync handed out the handle after its six steps
C16_Witness ==
    /\ pc = "ready" /\ Len(trace) = 6
    /\ trace[1].step = "sw_reset" /\ trace[6].step = "sync_mode"
    /\ info.ip.sync_mode = ADIS_SYNC_SCALED /\ clk_freq = 100

\* C17: every bring-up applies exactly one reset: the reset line followed
\* by the reset settle delay when the handle has a reset line, otherwise
\* the software-reset command followed by its settle delay; no bring-up
\* performs both and none performs neither.
C17_Step ==
    /\ StepDone =>
         LET n == Len(trace')
             e == trace'[n]
         IN  /\ (StepKind(e.step) = "reset") <=> (n = 1)
             /\ (n = 1) =>
                  /\ (e.step = "reset_line") <=> gpio_reset
                  /\ (e.step = "sw_reset") <=> ~gpio_reset
                  /\ (e.ret = "OK") =>
                       e.delay = (IF gpio_reset THEN "reset_ms"
                                  ELSE "sw_reset_ms")
                  /\ (e.step = "reset_line") => last'.msgs = << >>
                  /\ (e.step = "sw_reset") => SwResFrames(last'.msgs) # {}
             /\ (n > 1) =>
                  /\ SwResFrames(last'.msgs) = {}
                  /\ e.delay \notin {"reset_ms", "sw_reset_ms"}
    /\ (pc' \in {"self_test", "fls_mem_test", "diag_stat", "prod_id",
                 "sync_mode", "ready"}) =>
         /\ Len(trace') >= 1
         /\ StepKind(trace'[1].step) = "reset" /\ trace'[1].ret = "OK"

DevProdId == DevWord([dev EXCEPT !.page = 0], ProdIdField.reg_addr)

\* C18: when the product ID read from the device differs from the chip
\* descriptor's and all bus transfers succeed, adis_initial_startup still
\* returns success and the bring-up continues with the sync-mode
\* programming.
C18_Step ==
    /\ (pc = "prod_id" /\ StepDone /\ last'.bus = << "OK" >>
        /\ last'.out # Bits(ChipProdId)) =>
         /\ last'.op = "read_prod_id"
         /\ trace'[Len(trace')] =
                [step |-> "prod_id", ret |-> "OK", delay |-> ""]
         /\ pc' = "sync_mode"
    /\ (pc = "sync_mode" /\ StepDone /\ DevProdId # ChipProdId) =>
         /\ IsSyncCall(last')
         /\ SyncModeOf(last') = info.ip.sync_mode
         /\ SyncFreqOf(last') = info.ip.ext_clk

C18_ProdIdMismatch == [][C18_Step]_vars

\* C18 witness: the handle of a device that reports another product ID
\* was handed out after the sync-mode programming
C18_Witness ==
    /\ pc = "ready" /\ DevProdId = ChipProdId + 1
    /\ Len(trace) = 6 /\ trace[5].step = "prod_id" /\ trace[5].ret = "OK"
    /\ IsSyncCall(last) /\ last.ret = "OK"

\* the transfers a batch of messages was handed to the bus in: one for each
\* read command and one for the two byte writes of each 2-byte register
\* (a page-select rides in the transfer of the access it precedes)
ReadCmds(msgs) ==
    {i \in 1..Len(msgs) : msgs[i].tx # << >> /\ msgs[i].tx[1] < 128}

DataWrites(msgs) ==
    {i \in 1..Len(msgs) :
        msgs[i].tx # << >>
        /\ msgs[i].tx[1] > ADIS_WRITE_REG(ADIS_REG_PAGE_ID)}

TransfersIn(msgs) ==
    Cardinality(ReadCmds(msgs)) + (Cardinality(DataWrites(msgs)) \div 2)

\* C26: no operation retries: once a bus transfer reports failure the
\* operation hands nothing more to the bus and returns the code of the
\* transport unchanged (a failed read in a field write suppresses the
\* write, a failed bring-up step suppresses all later steps), so each
\* operation attempts each of its transfers at most once.
C26_NoRetry ==
    /\ \A i \in 1..Len(last.bus) :
          last.bus[i] # "OK" => (i = Len(last.bus) /\ last.ret = last.bus[i])
    /\ TransfersIn(last.msgs) = Len(last.bus)
    /\ (last.bus # << >> /\ last.bus[Len(last.bus)] # "OK"
            /\ last.msgs[Len(last.msgs)].tx = << >>) =>
          DataWrites(last.msgs) \subseteq 1..(Len(last.msgs) - 2)
    /\ \A i \in 1..Len(trace) :
          /\ trace[i].ret # "OK" => (i = Len(trace) /\ pc = "failed")
          /\ \A j \in 1..Len(trace) : trace[j].step = trace[i].step => j = i
    /\ (pc = "failed" /\ trace # << >>) => last.ret = trace[Len(trace)].ret

\* C26 witness: the bring-up ended at the sync-mode programming, whose
\* field write met a timeout at its read and wrote nothing
C26_Witness ==
    /\ pc = "failed" /\ Len(trace) = 6 /\ trace[6].ret = "ETIMEDOUT"
    /\ IsSyncCall(last) /\ last.bus = << "ETIMEDOUT" >>
    /\ Cardinality(ReadCmds(last.msgs)) = 1 /\ DataWrites(last.msgs) = {}

\* adis_init has returned to its caller
InitReturned == pc \in {"ready", "failed"}

\* C40: for every choice of success or failure of each bus transfer
\* adis_init eventually returns, ready or with an error, after a bounded
\* number of transfers and settle delays: it runs at most the six steps of
\* the bring-up, each at most once, with one settle delay at most and with
\* at most five transfers (the programming of scaled sync: two reads and a
\* write for the scale, a read and a write for the mode), and it starts
\* nothing after it returned.
C40_InitTerminates ==
    /\ <>InitReturned
    /\ [](/\ Len(trace) <= Len(BringUpOrder)
          /\ Len(last.bus) <= 5
          /\ \A i, j \in 1..Len(trace) :
                StepKind(trace[i].step) = StepKind(trace[j].step) => i = j)
    /\ [][InitReturned => UNCHANGED vars]_vars

\* C40 witness: adis_init returned an error after a bus failure in the
\* fourth step, the read of the status register
C40_Witness ==
    /\ pc = "failed" /\ Len(trace) = 4
    /\ trace[4].step = "diag_stat" /\ trace[4].ret = "EIO"
    /\ last.bus = << "EIO" >>

\* the status word of the device
DevDiagStat == DevWord(dev, DiagStatField.reg_addr)

AllFlagsClear == \A f \in DOMAIN diag_flags : diag_flags[f] = FALSE

\* C27: after a successful bring-up with a reset line against a device whose
\* status register reads zero, every flag of the snapshot (the ten register
\* flags, checksum-error and write-count-exceeded) is false, and a following
\* burst read of a corrupted frame returns an error, sets only
\* checksum-error and delivers no payload.
C27_Step ==
    /\ (pc' = "ready" /\ gpio_reset' /\ DevDiagStat' = 0
            /\ last'.op # "read_burst_data") =>
          /\ AllFlagsClear'
          /\ DOMAIN diag_flags' = DOMAIN NoFlags
          /\ Cardinality(DOMAIN diag_flags') = 12
    /\ (pc = "ready" /\ gpio_reset /\ DevDiagStat = 0
            /\ last.op # "read_burst_data"
            /\ last'.op = "read_burst_data" /\ last'.bus = << "OK" >>
            /\ PayloadSum(last'.frame) # Trailer(last'.frame)) =>
          /\ last'.ret # "OK"
          /\ diag_flags' = [NoFlags EXCEPT !.checksum_err = TRUE]
          /\ burst_data' = Untouched

C27_FreshSnapshot == [][C27_Step]_vars

\* C27 witness: the first burst read after a bring-up through the reset
\* line received a corrupted frame whose first byte has status bits set
C27_Witness ==
    /\ pc = "ready" /\ gpio_reset /\ DevDiagStat = 0
    /\ trace[1].step = "reset_line"
    /\ last.op = "read_burst_data" /\ last.ret = "EINVAL"
    /\ last.frame[1] = 6 /\ PayloadSum(last.frame) # Trailer(last.frame)
    /\ diag_flags = [NoFlags EXCEPT !.checksum_err = TRUE]
    /\ burst_data = Untouched

\* C37: adis_init either returns success with a handle that owns its bus
\* connection (and its reset line, if there is one), or returns an error,
\* hands no handle to the caller and has released every resource it
\* acquired exactly once; a failure of the reset-line setup, of any
\* bring-up step or of the sync-mode programming takes the error path.
C37_Lifecycle ==
    /\ (pc = "ready") =>
          /\ heap.adis
          /\ heap.dev = "held" /\ heap.spi_desc = "held"
          /\ heap.gpio_reset = (IF gpio_reset THEN "held" ELSE "none")
    /\ (pc = "failed") =>
          /\ ~heap.adis
          /\ \A x \in {"dev", "spi_desc", "gpio_reset"} :
                heap[x] \in {"none", "released"}
          /\ (heap.spi_desc = "released") => heap.dev = "released"
          /\ (heap.gpio_reset = "released") => heap.spi_desc = "released"
          /\ (gpio_reset \/ trace # << >>) =>
                /\ heap.dev = "released" /\ heap.spi_desc = "released"
                /\ heap.gpio_reset =
                        (IF gpio_reset THEN "released" ELSE "none")
    /\ (pc \notin {"ready", "failed", "start"}) =>
          /\ ~heap.adis
          /\ heap.dev = "held" /\ heap.spi_desc = "held"
          /\ heap.gpio_reset = (IF gpio_reset THEN "held" ELSE "none")
    /\ (pc = "start") => heap = NoHeap

\* C37 witness: the sync-mode programming of a handle with a reset line
\* failed, and the line, the bus connection and the handle were released
C37_Witness ==
    /\ pc = "failed" /\ gpio_reset
    /\ Len(trace) = 6 /\ trace[6].step = "sync_mode"
    /\ heap = [dev |-> "released", spi_desc |-> "released",
               gpio_reset |-> "released", adis |-> FALSE]

\* the members of the first handle
FirstHandle == <<current_page, diag_flags, clk_freq, ext_clk, last>>

\* whether the device reads a sync mode that rejects the clock
RejectsClock(d, inf, clk) ==
    /\ SyncExternal(DevSyncMode(d))
    /\ ExtClkOutOfRange(inf, DevSyncMode(d), clk)

\* C38: with two handles, an operation on one handle changes neither the
\* cached page, the clock state nor the diagnostic snapshot of the other,
\* and the results seen on one handle do not depend on the operations
\* performed on the other: they are those of its own device.
C38_Step ==
    /\ (peer' # peer) => (FirstHandle' = FirstHandle /\ dev' = dev)
    /\ (FirstHandle' # FirstHandle \/ dev' # dev) => peer' = peer
    /\ (last' # last /\ last'.op = "read_diag_stat" /\ last'.ret = "OK") =>
          /\ last'.out = DevValue(dev, DiagStatField.reg_addr,
                                  DiagStatField.reg_size)
          /\ diag_flags' = adis_update_diag_flags(diag_flags, last'.out)
    /\ (last' # last /\ last'.op = "update_ext_clk_freq"
            /\ last'.bus = << "OK" >>) =>
          /\ (last'.ret = "EINVAL") <=>
                RejectsClock(dev, info, Nat31(last'.val))
          /\ ext_clk' = (IF last'.ret = "OK" THEN Nat31(last'.val)
                         ELSE ext_clk)
    /\ (peer' # peer /\ peer'.last.op = "read_diag_stat"
            /\ peer'.last.ret = "OK") =>
          /\ peer'.last.out = DevValue(peer.dev, DiagStatField.reg_addr,
                                       DiagStatField.reg_size)
          /\ peer'.diag_flags =
                adis_update_diag_flags(peer.diag_flags, peer'.last.out)
    /\ (peer' # peer /\ peer'.last.op = "update_ext_clk_freq"
            /\ peer'.last.bus = << "OK" >>) =>
          /\ (peer'.last.ret = "EINVAL") <=>
                RejectsClock(peer.dev, info, Nat31(peer'.last.val))
          /\ peer'.ext_clk = (IF peer'.last.ret = "OK"
                              THEN Nat31(peer'.last.val) ELSE peer.ext_clk)

RegWord(d, reg) ==
    LET B(x) == IF x \in DOMAIN d.mem THEN d.mem[x] ELSE 0
    IN  B(reg + 1) * 256 + B(reg)

\* caller t returns from its register access
Returns(t) == thr.t[t].pc = "transferred" /\ thr'.t[t].pc = "idle"

\* the access of caller t had the effect of a register access: the cache
\* names the page the device has selected, a read returns the word of its
\* register and a write has stored its value
AccessSound(t) ==
    /\ current_page' = dev'.page
    /\ (thr.t[t].op = "read_reg") =>
          thr'.t[t].val = Bits(RegWord(dev', thr.t[t].reg))
    /\ (thr.t[t].op = "write_reg") =>
          Bits(RegWord(dev', thr.t[t].reg)) = thr.t[t].val

\* C39: the handle provides no mutual exclusion: when the register
\* accesses of two callers on one handle are serialized (and all transfers
\* succeed), every access returns with the cached page equal to the page
\* the device has selected and with the data of its own register; when
\* they interleave, a state is reachable in which the cached page differs
\* from the page of the device or an access returned the data of the
\* register of the other access.
C39_Step ==
    (thr.on /\ thr.serialized) =>
        \A t \in Callers : Returns(t) => AccessSound(t)

C39_SerializedAccess == [][C39_Step]_vars

\* C39 witness: without serialization both callers have returned, the
\* cached page is not the page of the device, and the read of register 4
\* by caller 1 returned the word of the register caller 2 read
C39_Witness ==
    /\ thr.on /\ ~thr.serialized
    /\ \A t \in Callers : thr.t[t].pc = "idle" /\ thr.t[t].n = 1
    /\ current_page # dev.page
    /\ thr.t[1].op = "read_reg" /\ thr.t[1].reg = 4
    /\ thr.t[2].op = "read_reg" /\ thr.t[2].reg = ADIS_PAGE_SIZE + 4
    /\ thr.t[1].val = Bits(RegWord(dev, ADIS_PAGE_SIZE + 4))

(***************************************************************************)
(* Properties of the flash-memory update and the write-cycle counter.      *)
(***************************************************************************)
\* the count in the counter register of the device
DevFlashCount(d) ==
    DevValue(d, FlsMemWrCntrField.reg_addr, FlsMemWrCntrField.reg_size)

\* the calls that read the write-cycle counter
ReadsCounter(c) ==
    /\ c.op \in {"read_fls_mem_wr_cntr", "cmd_fls_mem_update"}
    /\ c.ret = "OK"

\* C32: write-count-exceeded is sticky: once a counter read has observed a
\* count above the maximum of the device and set the flag, the flag stays
\* true through every later operation on the handle, later counter reads
\* that return a count at or below the maximum included; a counter read
\* never sets it to false.
C32_Step ==
    /\ diag_flags.fls_mem_wr_cnt_exceed => diag_flags'.fls_mem_wr_cnt_exceed
    /\ (last' # last /\ ReadsCounter(last')
            /\ U32Gt(last'.out, Bits(FlsMemWrCntrMax))) =>
          diag_flags'.fls_mem_wr_cnt_exceed

C32_StickyExceed == [][C32_Step]_vars

\* C32 witness: a counter read returned a count at the maximum and the flag
\* an earlier read had set is still true
C32_Witness ==
    /\ last.op = "read_fls_mem_wr_cntr" /\ last.ret = "OK"
    /\ last.out = Bits(FlsMemWrCntrMax)
    /\ diag_flags.fls_mem_wr_cnt_exceed

\* C33: every flash-memory-update command that succeeded is followed,
\* within the same call, by a read of the write-cycle counter, so that
\* after adis_cmd_fls_mem_update returned success write-count-exceeded is
\* true whenever the count then read exceeds the maximum of the device; if
\* the command write fails no counter read is issued.
C33_Step ==
    LET c == last'
    IN  (c.op = "cmd_fls_mem_update" /\ c # last) =>
            /\ (c.ret = "OK") =>
                    /\ c.bus = << "OK", "OK" >>
                    /\ \E i \in ReadCmds(c.msgs) :
                          /\ c.msgs[i].tx[1] = FlsMemWrCntrField.reg_addr
                          /\ \E j \in DataWrites(c.msgs) : j < i
                    /\ c.out = DevFlashCount(dev')
                    /\ U32Gt(c.out, Bits(FlsMemWrCntrMax)) =>
                          diag_flags'.fls_mem_wr_cnt_exceed
                    /\ ~U32Gt(c.out, Bits(FlsMemWrCntrMax)) =>
                          diag_flags' = diag_flags
            /\ (c.bus[1] # "OK") =>
                    /\ c.ret = c.bus[1] /\ Len(c.bus) = 1
                    /\ ReadCmds(c.msgs) = {}
                    /\ diag_flags' = diag_flags
            /\ (c.ret # "OK") => diag_flags' = diag_flags

C33_UpdateReadsCounter == [][C33_Step]_vars

\* C33 witness: a flash-memory update that succeeded read a count above
\* the maximum and set the flag
C33_Witness ==
    /\ last.op = "cmd_fls_mem_update" /\ last.ret = "OK"
    /\ last.out = Bits(FlsMemWrCntrMax + 1)
    /\ diag_flags.fls_mem_wr_cnt_exceed
    /\ Cardinality(ReadCmds(last.msgs)) = 2

TwosComplement(v, n) ==
    IF n = 1 THEN (IF 0 \in v THEN -1 ELSE 0)
    ELSE LET low == Nat31(v \cap (0..(n - 2)))
         IN  IF (n - 1) \in v THEN (low - Pow2(n - 2)) - Pow2(n - 2) ELSE low

\* the value the claims expect of a signed field: the masked bits, right
\* justified, read as a number of the width of the mask
SignedField(mask, raw) ==
    TwosComplement(Shr(raw \cap mask, no_os_find_first_set_bit(mask)),
                   Cardinality(mask))

\* C7: for masks 2^n - 1 adis_read_field_s32 returns the masked value as an
\* n-bit two's-complement number; with mask 0x0FFF, 0x0FFF decodes to -1,
\* 0x0800 to -2048 and 0x07FF to 2047.
C7_SignedDecodeFromBit0 ==
    (calc.op = "read_field_s32" /\ 0 \in calc.mask) =>
        /\ Int32(calc.out) = SignedField(calc.mask, calc.raw)
        /\ (calc.mask = 0..11 /\ calc.raw = Bits(4095)) => Int32(calc.out) = -1
        /\ (calc.mask = 0..11 /\ calc.raw = Bits(2048)) => Int32(calc.out) = -2048
        /\ (calc.mask = 0..11 /\ calc.raw = Bits(2047)) => Int32(calc.out) = 2047

\* C7 witness: the 12-bit field with only its sign bit set decoded to -2048
C7_Witness ==
    /\ calc.op = "read_field_s32" /\ calc.mask = 0..11
    /\ calc.raw = Bits(2048) /\ Int32(calc.out) = -2048

\* C8: for every contiguous mask, also one that starts above bit 0,
\* adis_read_field_s32 returns the right-justified masked bits as a
\* two's-complement number of the width of the mask.
C8_SignedDecodeAnyMask ==
    (calc.op = "read_field_s32") =>
        Int32(calc.out) = SignedField(calc.mask, calc.raw)

====
